---- MODULE Spec2Model ----
(***************************************************************************)
(* A model of status-go's NodeManager (geth/node/manager.go), of the jail's *)
(* ExecutionPolicy (geth/jail/execcution_policy.go) with the transaction    *)
(* queue it delegates to, and of the cells that TestJailRPCAsyncSend        *)
(* (e2e/jail/jail_rpc_test.go) runs scripts in.                             *)
(*                                                                          *)
(* NodeManager: every field of the struct is a variable; every helper that  *)
(* takes a field lock, touches the field and releases the lock is one       *)
(* atomic step.  The three locks that are held across a blocking call       *)
(* (nodeStartedLock in readNodeStarted, nodeStoppedLock in readNodeStopped, *)
(* nodeLock around node.Wait) follow sync.RWMutex: Lock waits until no      *)
(* reader holds the lock, and a waiting Lock keeps new readers out.         *)
(*                                                                          *)
(* The transaction queue and the cell are defined outside these three files; *)
(* they are modelled after the specification (4.2-4.5).                     *)
(*                                                                          *)
(* Five specifications share the variables: Spec (the NodeManager), TxSpec  *)
(* (the execution policy and the queue), CellSpec (the cells),              *)
(* CallOrderSpec (ExecuteOtherTransaction under TestCallResponseOrder) and  *)
(* PersistSpec (TestJailVMPersistence).                                     *)
(***************************************************************************)
EXTENDS Integers, Sequences, FiniteSets, TLC

\* ------------------------------------------------------------- bounds
MaxStarts  == 2     \* nodes MakeNode may create in one run
MaxReqs == 2        \* eth_sendTransaction requests
MaxQueue == 1       \* capacity of the transaction queue
MaxHostCalls == 3   \* Complete / Discard calls the host threads make in all
NumRuns == 3        \* concurrent cell.Run goroutines of the test
NumCalls == 2       \* values of i that TestCallResponseOrder calls with

\* The threads that call into the NodeManager.
Callers  == {1, 2}

\* What the threads are given to do in one run: how many calls each thread
\* makes, one after the other, and how many nodes the run may make.
\*   two threads, one call each (two starts may race);
\*   a thread making two calls beside a thread making one, on one node;
\*   one thread making three calls.
Workloads == { [calls |-> <<1, 1>>, nodes |-> MaxStarts],
               [calls |-> <<2, 1>>, nodes |-> 1],
               [calls |-> <<3, 0>>, nodes |-> MaxStarts] }
StartIds == 1..MaxStarts

Nil == 0            \* a nil pointer / nil channel

\* ------------------------------------------------------------- state
VARIABLES
  \* NodeManager fields (part_000 lines 35-56)
  config, node, nodeStarted, nodeStopped, whisperService, lesService, rpcClient,
  \* sync.RWMutex state: goroutines blocked inside Lock(), per lock
  blocked,
  \* the exclusive locks each goroutine has taken, in the order it took them
  locks,
  \* the underlying geth nodes, the channels, the signal bus, the process
  eth,            \* eth[k]: "none" | "made" | "running" | "stopped" | "failed"
  startedClosed,  \* started channels (made at line 84) that are closed
  stoppedClosed,  \* m.nodeStopped channels (made at line 104) that are closed
  stopDone,       \* stopNode's local nodeStopped channels (line 175), closed
  signals,        \* what signal.Send has delivered, in order
  halted,         \* a goroutine panicked: the process is gone
  \* the calling threads
  cpc, cop, carg, cstop, cafter,
  ret,            \* what the last call to return handed to its caller
  quota,          \* calls each thread has still to make
  maxNodes,       \* nodes the run may make
  \* the goroutine of startNode (lines 86-145), one per node made
  spc, scfg, snode, safter,
  sby,            \* sby[k]: the call that made node k and the node that call stopped
  \* the PopulateStaticPeers goroutine (lines 124-128), one per node made
  ppc,
  \* the goroutine of stopNode (lines 176-191), one per node stopped
  tpc,
  \* ExecutionPolicy: the eth_sendTransaction requests (execcution_policy.go)
  xpc,            \* where each request is
  xup,            \* config.UpstreamConfig.Enabled as the request read it
  xtx,            \* the transaction the remote path built and signed
  xfrom,          \* the from address the remote path parsed from the request
  xres,           \* what the request handed back to the script
  xlog,           \* the calls the request has made, in order
  upNonce,        \* the upstream node's transaction count of the account
  \* the transaction queue and its users
  txQueue, txStatus, txDone, txWoken, txWins, txSubmitted, txSignals,
  hpc, htx, hres, hquota,   \* host threads calling Complete / Discard
  hhash,                    \* hhash[t]: the hash Complete(t) returned to its host
  epc,                      \* the TTL timer of each queued transaction
  \* the cells
  mutex,          \* mutex[c]: the cell's lock is held
  engine,         \* engine[c]: who is executing inside the cell's script engine
  broken,         \* broken[c]: two threads were inside the engine at once
  rpc, apc,       \* the entering threads and their sendAsync goroutines
  testErr,        \* the err variable the test's goroutines share
  failedAsserts,  \* NoError assertions that failed
  \* jail.Call into the test's cell (TestCallResponseOrder, TestJailVMPersistence)
  kpc,            \* where each Call is
  kres,           \* the response each Call returned
  bound,          \* the params the engine has bound for the function it runs
  value,          \* the value the engine's last function call returned
  total,          \* the script's global `total`
  kacc,           \* the operand a `total += ...` has loaded
  cbpc, cbenv,    \* the sendTransaction callbacks: where they are, what they hold
  \* ExecuteOtherTransaction inside a Call (execcution_policy.go lines 134-196)
  oresp, oerr,    \* the response object and the Go error it returned
  oout,           \* err and result of its client.Call
  olog,           \* preProcessRequest / client.Call / postProcessRequest, as run
  msgSeq, msgCtx  \* the cell's message sequence and the message id it exposes

fieldVars  == <<config, node, nodeStarted, nodeStopped, whisperService, lesService, rpcClient>>
envVars    == <<eth, startedClosed, stoppedClosed, stopDone, signals>>
callerVars == <<cpc, cop, carg, cstop, cafter, ret, quota, maxNodes>>
startVars  == <<spc, scfg, snode, safter, sby>>
nodeVars   == <<fieldVars, blocked, locks, envVars, halted, callerVars, startVars, ppc, tpc>>
reqVars    == <<xpc, xup, xtx, xfrom, xres, xlog, upNonce>>
queueVars  == <<txQueue, txStatus, txDone, txWoken, txWins, txSubmitted, txSignals>>
hostVars   == <<hpc, htx, hres, hquota, hhash>>
txVars     == <<reqVars, queueVars, hostVars, epc>>
cellVars   == <<mutex, engine, broken, rpc, apc, testErr, failedAsserts>>
scriptVars == <<bound, value, total, kacc>>
otherVars  == <<oresp, oerr, oout, olog, msgSeq, msgCtx>>
callVars   == <<kpc, kres, cbpc, cbenv, scriptVars, otherVars>>

\* The node manager's process is alive; its steps touch nothing of the jail.
Alive == ~halted /\ UNCHANGED <<txVars, cellVars, callVars>>

\* ------------------------------------------------------------- operations
Accessors  == {"IsNodeRunning", "Node", "NodeConfig", "AccountManager",
               "AccountKeyStore", "RPCClient"}
StartOps   == {"StartNode", "RestartNode", "ResetChainData"}
Ops        == Accessors \cup StartOps \cup {"StopNode"}

NoRet      == [op |-> "none", err |-> "none", val |-> Nil]
\* no call has made the node
NoCall     == [op |-> "none", stopped |-> Nil]

Sig(t, i)  == <<t, i>>

\* ------------------------------------------------------------- locks
\* A reader holds nodeStartedLock while it is blocked on <-m.nodeStarted
\* (readNodeStarted, lines 564-568).
StartedReaders == {c \in Callers : cpc[c] = "r2"} \cup {k \in StartIds : ppc[k] = "r2"}
\* A reader holds nodeStoppedLock while it is blocked on <-m.nodeStopped
\* (readNodeStopped, lines 590-594).
StoppedReaders == {j \in StartIds : tpc[j] = "g2"}
\* The start goroutine holds nodeLock for reading around m.node.Wait()
\* (lines 138-140).
NodeReaders    == {k \in StartIds : spc[k] = "wait"}

HasReader(L) ==
  CASE L = "started" -> StartedReaders # {}
    [] L = "stopped" -> StoppedReaders # {}
    [] L = "node"    -> NodeReaders # {}

\* RWMutex.RLock: blocks while a writer is waiting in Lock.
CanRLock(L) == blocked[L] = {}
\* RWMutex.Lock: blocks while a reader holds the lock.
CanLock(L)  == ~HasReader(L)

\* Lock(L) by process p: either the lock is taken (blocked' drops p) or p
\* starts to wait and keeps readers out from now on.
\* the goroutines that take exclusive locks: a caller inside startNode
\* (line 84), the start goroutines, the stop goroutines
Procs == ({"c"} \X Callers) \cup ({"s", "t"} \X StartIds)
\* Goroutine p has taken the exclusive lock of field L.
Locked(p, L) == locks' = [locks EXCEPT ![p] = Append(@, L)]

Acquire(L, p) == /\ CanLock(L) /\ blocked' = [blocked EXCEPT ![L] = @ \ {p}]
                 /\ Locked(p, L)
Wait4(L, p)   == ~CanLock(L) /\ p \notin blocked[L]
                 /\ blocked' = [blocked EXCEPT ![L] = @ \cup {p}]
                 /\ UNCHANGED locks

\* ------------------------------------------------------------- initial state
NodeFresh ==
  /\ config = Nil /\ node = Nil /\ nodeStarted = Nil /\ nodeStopped = Nil
  /\ whisperService = Nil /\ lesService = Nil /\ rpcClient = Nil
  /\ blocked = [L \in {"started", "stopped", "node"} |-> {}]
  /\ locks = [p \in Procs |-> <<>>]
  /\ eth = [k \in StartIds |-> "none"]
  /\ startedClosed = {} /\ stoppedClosed = {} /\ stopDone = {}
  /\ signals = <<>>
  /\ halted = FALSE
  /\ cpc = [c \in Callers |-> "idle"]
  /\ cop = [c \in Callers |-> "none"]
  /\ carg = [c \in Callers |-> Nil]
  /\ ret = NoRet
  /\ cstop = [c \in Callers |-> Nil]
  /\ cafter = [c \in Callers |-> {}]
  /\ spc = [k \in StartIds |-> "none"]
  /\ scfg = [k \in StartIds |-> Nil]
  /\ snode = [k \in StartIds |-> Nil]
  /\ safter = [k \in StartIds |-> {}]
  /\ sby = [k \in StartIds |-> NoCall]
  /\ ppc = [k \in StartIds |-> "none"]
  /\ tpc = [k \in StartIds |-> "none"]

NodeInit == NodeFresh /\ \E w \in Workloads : quota = w.calls /\ maxNodes = w.nodes
\* no thread calls the node manager
NodeOff  == NodeFresh /\ quota = [c \in Callers |-> 0] /\ maxNodes = 0

\* A panic (close of a nil or closed channel, nil dereference) ends the
\* process: HaltOnPanic in the goroutines, the runtime elsewhere.
Panic == halted' = TRUE
         /\ UNCHANGED <<fieldVars, blocked, locks, envVars, callerVars, startVars, ppc, tpc>>

Made    == {k \in StartIds : eth[k] # "none"}
\* callers inside startNode that have not made their node yet
InStart == {c \in Callers : cop[c] \in StartOps /\ cpc[c] \notin {"idle", "s4"}}
FreshId == Cardinality(Made) + 1


\* ------------------------------------------------------------- callers
notThread == <<fieldVars, blocked, locks, envVars, halted, startVars, ppc, tpc>>
notCaller == <<notThread, quota, maxNodes>>

\* The call of thread c returns (err, val) to its caller.
ReturnAs(c, op, e, v) ==
  /\ ret' = [op |-> op, err |-> e, val |-> v]
  /\ cpc' = [cpc EXCEPT ![c] = "idle"]
  /\ cop' = [cop EXCEPT ![c] = "none"]
  /\ carg' = [carg EXCEPT ![c] = Nil]
  /\ cstop' = [cstop EXCEPT ![c] = Nil]
  /\ cafter' = [cafter EXCEPT ![c] = {}]
Return(c, e, v) == ReturnAs(c, cop[c], e, v)

\* The call of thread c goes on at p.
Goto(c, p) == cpc' = [cpc EXCEPT ![c] = p] /\ UNCHANGED ret

\* Thread c makes a call: one less to make.
Called(c) == quota' = [quota EXCEPT ![c] = @ - 1] /\ UNCHANGED maxNodes

Stay(c, p) == Goto(c, p) /\ UNCHANGED <<cop, carg, cstop, cafter>>

\* A thread between calls may call while it has calls to make.  StartNode,
\* RestartNode and ResetChainData may each make a node, so they are admitted
\* only while the supply of nodes lasts.
MayCall(c, op) ==
  /\ Alive
  /\ cpc[c] = "idle"
  /\ quota[c] > 0
  /\ op \in StartOps => Cardinality(Made) + Cardinality(InStart) < maxNodes

\* isNodeAvailable, first operand: m.nodeStartedIsNil()   (lines 471-477, 556-562)
IsNodeAvailableStarted == IF nodeStarted = Nil THEN "NoRunningNode" ELSE "ok"
\* isNodeAvailable, second operand: m.getNode() == nil     (lines 472, 538-548)
IsNodeAvailableNode    == IF node = Nil THEN "NoRunningNode" ELSE "ok"

\* Every method but StartNode and RPCClient opens with isNodeAvailable
\* (lines 152, 198, 209, 281, 320, 344, 408, 426); the call and the first
\* operand of the check are one step.
CallAvailable(c, op) ==
  /\ MayCall(c, op)
  /\ op \notin {"StartNode", "RPCClient"}
  /\ CanRLock("started")
  /\ IF IsNodeAvailableStarted # "ok"
       THEN ReturnAs(c, op, IsNodeAvailableStarted, Nil)
       ELSE /\ cop' = [cop EXCEPT ![c] = op]
            /\ Goto(c, "a2") /\ UNCHANGED <<carg, cstop, cafter>>
  /\ Called(c)
  /\ UNCHANGED notThread

\* StopNode goes on to nodeStoppedIsNil, the others to readNodeStarted.
AvailableNode(c) ==
  /\ Alive /\ cpc[c] = "a2"
  /\ CanRLock("node")
  /\ IF IsNodeAvailableNode # "ok"
       THEN Return(c, IsNodeAvailableNode, Nil)
       ELSE Stay(c, IF cop[c] = "StopNode" THEN "p1" ELSE "r1")
  /\ UNCHANGED notCaller

\* StopNode: if m.nodeStoppedIsNil() { return nil, ErrNoRunningNode }  (lines 156-158)
NodeStoppedIsNil(c) ==
  /\ Alive /\ cpc[c] = "p1"
  /\ CanRLock("stopped")
  /\ IF nodeStopped = Nil
       THEN Return(c, "NoRunningNode", Nil)
       ELSE Stay(c, "r1")
  /\ UNCHANGED notCaller

\* readNodeStarted: m.nodeStartedLock.RLock()              (line 565)
ReadNodeStartedRLock(c) ==
  /\ Alive /\ cpc[c] = "r1"
  /\ CanRLock("started")
  /\ Stay(c, "r2")
  /\ UNCHANGED notCaller

\* What follows readNodeStarted in each method.
AfterStarted(op) ==
  CASE op = "IsNodeRunning"                     -> "idle"
    [] op = "StopNode"                          -> "t1"
    [] op \in {"RestartNode", "ResetChainData"} -> "gc"
    [] OTHER                                    -> "tail"

\* A receive from a nil channel never returns; a receive from a channel
\* returns once it is closed (nothing is ever sent on these channels).
ChanReadable(ch, closed) == ch # Nil /\ ch \in closed

\* readNodeStarted: <-m.nodeStarted; RUnlock               (lines 566-567)
ReadNodeStarted(c) ==
  /\ Alive /\ cpc[c] = "r2"
  /\ ChanReadable(nodeStarted, startedClosed)
  /\ IF AfterStarted(cop[c]) = "idle"
       THEN Return(c, "ok", 1)                 \* IsNodeRunning: return true
       ELSE Stay(c, AfterStarted(cop[c]))
  /\ UNCHANGED notCaller

\* The value an accessor hands back once readNodeStarted has returned:
\*   Node            return m.getNode(), nil               (line 215)
\*   NodeConfig      return m.config, nil                  (line 350)
\*   AccountManager  m.node.AccountManager() under RLock   (lines 414-421)
\*   AccountKeyStore the same call, then the key store     (lines 432-449)
AccessorValue(op) ==
  CASE op = "Node"       -> node
    [] op = "NodeConfig" -> config
    [] OTHER             -> node

AccessorTail(c) ==
  /\ Alive /\ cpc[c] = "tail"
  /\ cop[c] # "NodeConfig" => CanRLock("node")
  /\ IF cop[c] \in {"AccountManager", "AccountKeyStore"} /\ node = Nil
       THEN Panic                              \* m.node.AccountManager() on nil
       ELSE /\ Return(c, "ok", AccessorValue(cop[c]))
            /\ UNCHANGED notCaller

\* RPCClient: return m.getRPCClient()                      (lines 453-455, 660-670)
\* The method has no error result and does not look at the started channel.
RPCClientValue == rpcClient

RPCClient(c) ==
  /\ MayCall(c, "RPCClient")
  /\ ReturnAs(c, "RPCClient", "ok", RPCClientValue)
  /\ Called(c)
  /\ UNCHANGED notThread

\* restartNode / resetChainData: prevConfig := m.getConfig()   (lines 293, 331)
\* getConfig hands back a copy of *m.config, nil if there is none (lines 495-505).
GetConfigOther == config + 1
GetConfig == config
GetPrevConfig(c) ==
  /\ Alive /\ cpc[c] = "gc"
  /\ carg' = [carg EXCEPT ![c] = GetConfig]
  /\ Goto(c, "t1")
  /\ UNCHANGED <<cop, cstop, cafter, notCaller>>

\* stopNode: m.node.Stop() under nodeLock.RLock, then the stop goroutine is
\* started and the local channel returned                   (lines 166-194).
\* Stop() of a node that is not running returns node.ErrNodeStopped.
StopNodeCall(c) ==
  /\ Alive /\ cpc[c] = "t1"
  /\ CanRLock("node")
  /\ IF node = Nil
       THEN Panic                              \* m.node.Stop() on nil
       ELSE IF eth[node] # "running"
         THEN /\ Return(c, "NodeStopped", Nil)
              /\ UNCHANGED notCaller
         ELSE /\ eth' = [eth EXCEPT ![node] = "stopped"]
              /\ tpc' = [tpc EXCEPT ![node] = "g1"]
              /\ IF cop[c] = "StopNode"
                   THEN Return(c, "ok", node)
                   ELSE /\ cstop' = [cstop EXCEPT ![c] = node]
                        /\ Goto(c, "w") /\ UNCHANGED <<cop, carg, cafter>>
              /\ UNCHANGED <<fieldVars, blocked, locks, startedClosed, stoppedClosed, stopDone,
                             signals, halted, startVars, ppc, quota, maxNodes>>

\* What follows <-nodeStopped: restartNode goes on to startNode (line 339),
\* resetChainData to the chain data directory (line 301).
AfterStoppedNoRemove(op) == "s1"
AfterStopped(op) == IF op = "ResetChainData" THEN "rm" ELSE "s1"

\* restartNode / resetChainData: <-nodeStopped              (lines 299, 337)
WaitNodeStopped(c) ==
  /\ Alive /\ cpc[c] = "w"
  /\ cstop[c] \in stopDone
  /\ cafter' = [cafter EXCEPT ![c] = stopDone]
  /\ Goto(c, AfterStopped(cop[c]))
  /\ UNCHANGED <<cop, carg, cstop, notCaller>>

\* resetChainData: os.Stat / os.RemoveAll of the chain data directory, then
\* the node.chaindata.removed signal                        (lines 301-313).
\* The directory is in the file system: it is there, it is not, or it is
\* there and cannot be removed.
ChainDataDirs == {"present", "missing", "undeletable"}
\* os.Stat with os.IsNotExist (lines 302-304), os.RemoveAll (lines 305-307)
RemoveOutcome(dir) ==
  CASE dir = "missing"     -> "NotExist"
    [] dir = "undeletable" -> "RemoveAll"
    [] OTHER               -> "ok"

RemoveChainData(c, dir) ==
  /\ Alive /\ cpc[c] = "rm"
  /\ IF RemoveOutcome(dir) = "ok"
       THEN /\ signals' = Append(signals, Sig("node.chaindata.removed", Nil))
            /\ Stay(c, "s1")
       ELSE /\ Return(c, RemoveOutcome(dir), Nil)
            /\ UNCHANGED signals
  /\ UNCHANGED <<fieldVars, blocked, locks, eth, startedClosed, stoppedClosed, stopDone,
                 halted, startVars, ppc, tpc, quota, maxNodes>>

\* startNode: if m.getNode() != nil ...                     (line 73, left operand)
StartNodeExists == IF node # Nil THEN "NodeExists" ELSE "ok"
\* startNode: ... || !m.nodeStartedIsNil()                  (line 73, right operand)
StartStartedExists == IF nodeStarted # Nil THEN "NodeExists" ELSE "ok"

\* StartNode(config): the call and the left operand of the check are one
\* step.  Thread c hands in its own configuration, c.
StartNode(c) ==
  /\ MayCall(c, "StartNode")
  /\ CanRLock("node")
  /\ IF StartNodeExists # "ok"
       THEN ReturnAs(c, "StartNode", StartNodeExists, Nil)
       ELSE /\ cop' = [cop EXCEPT ![c] = "StartNode"]
            /\ carg' = [carg EXCEPT ![c] = c]
            /\ cafter' = [cafter EXCEPT ![c] = stopDone]
            /\ Goto(c, "s2") /\ UNCHANGED cstop
  /\ Called(c)
  /\ UNCHANGED notThread

\* the same check when startNode is called by restartNode / resetChainData
StartCheckNode(c) ==
  /\ Alive /\ cpc[c] = "s1"
  /\ CanRLock("node")
  /\ IF StartNodeExists # "ok"
       THEN Return(c, StartNodeExists, Nil)
       ELSE Stay(c, "s2")
  /\ UNCHANGED notCaller

StartCheckStarted(c) ==
  /\ Alive /\ cpc[c] = "s2"
  /\ CanRLock("started")
  /\ IF StartStartedExists # "ok"
       THEN Return(c, StartStartedExists, Nil)
       ELSE Stay(c, "s3")
  /\ UNCHANGED notCaller

\* startNode: initLog(config); MakeNode(config); m.setNodeStarted(make(chan));
\* go func() {...}()                                        (lines 77-86).
\* initLog dereferences config; MakeNode may fail.
StartMakeNode(c, ok) ==
  /\ Alive /\ cpc[c] = "s3"
  /\ IF carg[c] = Nil
       THEN <<"c", c>> \notin blocked["started"] /\ Panic
       ELSE IF ~ok
         THEN /\ <<"c", c>> \notin blocked["started"]
              /\ Return(c, "MakeNode", Nil)
              /\ UNCHANGED notCaller
         ELSE \/ /\ Acquire("started", <<"c", c>>)
                 /\ nodeStarted' = FreshId
                 /\ eth' = [eth EXCEPT ![FreshId] = "made"]
                 /\ spc' = [spc EXCEPT ![FreshId] = "start"]
                 /\ scfg' = [scfg EXCEPT ![FreshId] = carg[c]]
                 /\ safter' = [safter EXCEPT ![FreshId] = cafter[c]]
                 /\ sby' = [sby EXCEPT ![FreshId] = [op |-> cop[c], stopped |-> cstop[c]]]
                 /\ Goto(c, "s4")
                 /\ UNCHANGED <<cop, carg, cstop, cafter, config, node, nodeStopped,
                                whisperService, lesService, rpcClient, startedClosed,
                                stoppedClosed, stopDone, signals, halted, snode, ppc, tpc,
                                quota, maxNodes>>
              \/ /\ Wait4("started", <<"c", c>>)
                 /\ UNCHANGED <<fieldVars, envVars, halted, callerVars, startVars, ppc, tpc>>

\* startNode: return m.nodeStarted, nil                     (line 147)
\* The field is read without its lock, after the goroutine was started.
StartReturn(c) ==
  /\ Alive /\ cpc[c] = "s4"
  /\ Return(c, "ok", nodeStarted)
  /\ UNCHANGED notCaller

CallerStep(c) ==
  \/ \E op \in Ops : CallAvailable(c, op)
  \/ AvailableNode(c)
  \/ NodeStoppedIsNil(c)
  \/ ReadNodeStartedRLock(c)
  \/ ReadNodeStarted(c)
  \/ AccessorTail(c)
  \/ RPCClient(c)
  \/ GetPrevConfig(c)
  \/ StopNodeCall(c)
  \/ WaitNodeStopped(c)
  \/ \E dir \in ChainDataDirs : RemoveChainData(c, dir)
  \/ StartNode(c)
  \/ StartCheckNode(c)
  \/ StartCheckStarted(c)
  \/ \E ok \in BOOLEAN : StartMakeNode(c, ok)
  \/ StartReturn(c)

\* ------------------------------------------------------------- the start goroutine
notBlocked == <<fieldVars, envVars, halted, callerVars, startVars, ppc, tpc>>
SGoto(k, p) == spc' = [spc EXCEPT ![k] = p]
sLocals == <<scfg, snode, safter, sby>>

\* close(ch): panics on a nil channel and on a closed one.
ClosePanics(ch, closed) == ch = Nil \/ ch \in closed

\* ethNode.Start()                                          (line 90)
EthNodeStart(k, ok) ==
  /\ Alive /\ spc[k] = "start"
  /\ eth' = [eth EXCEPT ![k] = IF ok THEN "running" ELSE "failed"]
  /\ SGoto(k, IF ok THEN "setNode" ELSE "f_close")
  /\ UNCHANGED <<fieldVars, blocked, locks, startedClosed, stoppedClosed, stopDone, signals,
                 halted, callerVars, sLocals, ppc, tpc>>

\* closeNodeStarted: Lock; close(m.nodeStarted); Unlock     (lines 570-574)
\* called at line 91 (start failed) and at line 131 (node is up).
CloseNodeStarted(k, from, to) ==
  /\ Alive /\ spc[k] = from
  /\ \/ /\ Acquire("started", <<"s", k>>)
        /\ IF ClosePanics(nodeStarted, startedClosed)
             THEN halted' = TRUE /\ UNCHANGED <<startedClosed, spc>>
             ELSE /\ startedClosed' = startedClosed \cup {nodeStarted}
                  /\ SGoto(k, to) /\ UNCHANGED halted
        /\ UNCHANGED <<fieldVars, eth, stoppedClosed, stopDone, signals, callerVars,
                       sLocals, ppc, tpc>>
     \/ Wait4("started", <<"s", k>>) /\ UNCHANGED notBlocked

StartFailedClose(k) == CloseNodeStarted(k, "f_close", "f_setnil")

\* m.setNodeStarted(nil)                                    (line 92)
StartFailedSetNil(k) ==
  /\ Alive /\ spc[k] = "f_setnil"
  /\ \/ /\ Acquire("started", <<"s", k>>)
        /\ nodeStarted' = Nil
        /\ SGoto(k, "f_signal")
        /\ UNCHANGED <<config, node, nodeStopped, whisperService, lesService, rpcClient,
                       envVars, halted, callerVars, sLocals, ppc, tpc>>
     \/ Wait4("started", <<"s", k>>) /\ UNCHANGED notBlocked

\* signal.Send(EventNodeCrashed); return                    (lines 94-100)
StartFailedSignal(k) ==
  /\ Alive /\ spc[k] = "f_signal"
  /\ signals' = Append(signals, Sig("node.crashed", k))
  /\ SGoto(k, "done")
  /\ UNCHANGED <<fieldVars, blocked, locks, eth, startedClosed, stoppedClosed, stopDone,
                 halted, callerVars, sLocals, ppc, tpc>>

\* m.setNode(ethNode)                                       (line 103)
SetNode(k) ==
  /\ Alive /\ spc[k] = "setNode"
  /\ \/ /\ Acquire("node", <<"s", k>>)
        /\ node' = k
        /\ SGoto(k, "setStopped")
        /\ UNCHANGED <<config, nodeStarted, nodeStopped, whisperService, lesService,
                       rpcClient, envVars, halted, callerVars, sLocals, ppc, tpc>>
     \/ Wait4("node", <<"s", k>>) /\ UNCHANGED notBlocked

\* m.setNodeStopped(make(chan struct{}, 1))                 (line 104)
SetNodeStopped(k) ==
  /\ Alive /\ spc[k] = "setStopped"
  /\ \/ /\ Acquire("stopped", <<"s", k>>)
        /\ nodeStopped' = k
        /\ SGoto(k, "setConfig")
        /\ UNCHANGED <<config, node, nodeStarted, whisperService, lesService,
                       rpcClient, envVars, halted, callerVars, sLocals, ppc, tpc>>
     \/ Wait4("stopped", <<"s", k>>) /\ UNCHANGED notBlocked

\* m.setConfig(config)                                      (line 105)
SetConfig(k) ==
  /\ Alive /\ spc[k] = "setConfig"
  /\ config' = scfg[k]
  /\ Locked(<<"s", k>>, "config")
  /\ SGoto(k, "getNode")
  /\ UNCHANGED <<node, nodeStarted, nodeStopped, whisperService, lesService,
                 rpcClient, blocked, envVars, halted, callerVars, sLocals, ppc, tpc>>

\* rpc.NewClient(m.getNode(), ...): the first argument      (line 108)
NewClientGetNode(k) ==
  /\ Alive /\ spc[k] = "getNode"
  /\ CanRLock("node")
  /\ snode' = [snode EXCEPT ![k] = node]
  /\ SGoto(k, "newClient")
  /\ UNCHANGED <<fieldVars, blocked, locks, envVars, halted, callerVars, scfg, safter, sby, ppc, tpc>>

\* rpc.NewClient(..., m.getUpstreamConfig()) and its outcome (lines 108-119).
\* getUpstreamConfig dereferences m.config; the client attaches to the node
\* it was given.  On failure: node.crashed and return, nothing else.
NewClient(k, ok) ==
  /\ Alive /\ spc[k] = "newClient"
  /\ IF config = Nil \/ snode[k] = Nil
       THEN Panic
       ELSE /\ IF ok
                 THEN SGoto(k, "setRPC") /\ UNCHANGED signals
                 ELSE /\ signals' = Append(signals, Sig("node.crashed", k))
                      /\ SGoto(k, "done")
            /\ UNCHANGED <<fieldVars, blocked, locks, eth, startedClosed, stoppedClosed, stopDone,
                           halted, callerVars, sLocals, ppc, tpc>>

\* m.setRPCClient(rpcClient); go m.PopulateStaticPeers()    (lines 121-128)
SetRPCClient(k) ==
  /\ Alive /\ spc[k] = "setRPC"
  /\ rpcClient' = snode[k]
  /\ Locked(<<"s", k>>, "rpcClient")
  /\ ppc' = [ppc EXCEPT ![k] = "a1"]
  /\ SGoto(k, "close")
  /\ UNCHANGED <<config, node, nodeStarted, nodeStopped, whisperService, lesService,
                 blocked, envVars, halted, callerVars, sLocals, tpc>>

\* m.closeNodeStarted()                                     (line 131)
StartedClose(k) == CloseNodeStarted(k, "close", "sig")

\* signal.Send(EventNodeStarted)                            (lines 132-135)
StartedSignal(k) ==
  /\ Alive /\ spc[k] = "sig"
  /\ signals' = Append(signals, Sig("node.started", k))
  /\ SGoto(k, "rlock")
  /\ UNCHANGED <<fieldVars, blocked, locks, eth, startedClosed, stoppedClosed, stopDone,
                 halted, callerVars, sLocals, ppc, tpc>>

\* m.nodeLock.RLock()                                       (line 138)
WaitRLock(k) ==
  /\ Alive /\ spc[k] = "rlock"
  /\ CanRLock("node")
  /\ SGoto(k, "wait")
  /\ UNCHANGED <<fieldVars, blocked, locks, envVars, halted, callerVars, sLocals, ppc, tpc>>

\* m.node.Wait(); m.nodeLock.RUnlock()                      (lines 139-140)
\* Wait returns once the node it is called on is no longer running.
NodeWait(k) ==
  /\ Alive /\ spc[k] = "wait"
  /\ IF node = Nil
       THEN Panic
       ELSE /\ eth[node] # "running"
            /\ SGoto(k, "closeStopped")
            /\ UNCHANGED <<fieldVars, blocked, locks, envVars, halted, callerVars, sLocals, ppc, tpc>>

\* closeNodeStopped: Lock; close(m.nodeStopped); Unlock     (lines 143, 596-600)
CloseNodeStopped(k) ==
  /\ Alive /\ spc[k] = "closeStopped"
  /\ \/ /\ Acquire("stopped", <<"s", k>>)
        /\ IF ClosePanics(nodeStopped, stoppedClosed)
             THEN halted' = TRUE /\ UNCHANGED <<stoppedClosed, spc>>
             ELSE /\ stoppedClosed' = stoppedClosed \cup {nodeStopped}
                  /\ SGoto(k, "done") /\ UNCHANGED halted
        /\ UNCHANGED <<fieldVars, eth, startedClosed, stopDone, signals, callerVars,
                       sLocals, ppc, tpc>>
     \/ Wait4("stopped", <<"s", k>>) /\ UNCHANGED notBlocked

StartStep(k) ==
  \/ \E ok \in BOOLEAN : EthNodeStart(k, ok)
  \/ StartFailedClose(k)
  \/ StartFailedSetNil(k)
  \/ StartFailedSignal(k)
  \/ SetNode(k)
  \/ SetNodeStopped(k)
  \/ SetConfig(k)
  \/ NewClientGetNode(k)
  \/ \E ok \in BOOLEAN : NewClient(k, ok)
  \/ SetRPCClient(k)
  \/ StartedClose(k)
  \/ StartedSignal(k)
  \/ WaitRLock(k)
  \/ NodeWait(k)
  \/ CloseNodeStopped(k)

\* ------------------------------------------------------------- PopulateStaticPeers
PGoto(k, p) == ppc' = [ppc EXCEPT ![k] = p]
notPeers == <<fieldVars, blocked, locks, envVars, halted, callerVars, startVars, tpc>>

\* isNodeAvailable                                          (lines 220-222)
PeersAvailStarted(k) ==
  /\ Alive /\ ppc[k] = "a1"
  /\ CanRLock("started")
  /\ PGoto(k, IF nodeStarted = Nil THEN "done" ELSE "a2")
  /\ UNCHANGED notPeers

PeersAvailNode(k) ==
  /\ Alive /\ ppc[k] = "a2"
  /\ CanRLock("node")
  /\ PGoto(k, IF node = Nil THEN "done" ELSE "r1")
  /\ UNCHANGED notPeers

\* readNodeStarted                                          (line 224)
PeersRLock(k) ==
  /\ Alive /\ ppc[k] = "r1"
  /\ CanRLock("started")
  /\ PGoto(k, "r2")
  /\ UNCHANGED notPeers

PeersReadStarted(k) ==
  /\ Alive /\ ppc[k] = "r2"
  /\ ChanReadable(nodeStarted, startedClosed)
  /\ PGoto(k, "pop")
  /\ UNCHANGED notPeers

\* populateStaticPeers: getBootClusterEnabled dereferences m.config
\* (lines 231-234, 507-513)
PeersBootCluster(k, enabled) ==
  /\ Alive /\ ppc[k] = "pop"
  /\ IF config = Nil
       THEN Panic
       ELSE PGoto(k, IF enabled THEN "ap" ELSE "done") /\ UNCHANGED notPeers

\* getBootNodes dereferences m.config (lines 236, 523-530); addPeer calls
\* m.node.Server() under nodeLock.RLock (lines 260-276).
PeersAddPeer(k) ==
  /\ Alive /\ ppc[k] = "ap"
  /\ CanRLock("node")
  /\ IF config = Nil \/ node = Nil
       THEN Panic
       ELSE PGoto(k, "done") /\ UNCHANGED notPeers

PeersStep(k) ==
  \/ PeersAvailStarted(k)
  \/ PeersAvailNode(k)
  \/ PeersRLock(k)
  \/ PeersReadStarted(k)
  \/ \E enabled \in BOOLEAN : PeersBootCluster(k, enabled)
  \/ PeersAddPeer(k)

\* ------------------------------------------------------------- the stop goroutine
TGoto(j, p) == tpc' = [tpc EXCEPT ![j] = p]
notStop == <<blocked, envVars, halted, callerVars, startVars, ppc>>

\* readNodeStopped: RLock                                   (lines 177, 591)
ReadNodeStoppedRLock(j) ==
  /\ Alive /\ tpc[j] = "g1"
  /\ CanRLock("stopped")
  /\ TGoto(j, "g2")
  /\ UNCHANGED <<fieldVars, locks, notStop>>

\* readNodeStopped: <-m.nodeStopped; RUnlock                (lines 592-593)
ReadNodeStopped(j) ==
  /\ Alive /\ tpc[j] = "g2"
  /\ ChanReadable(nodeStopped, stoppedClosed)
  /\ TGoto(j, "rs_config")
  /\ UNCHANGED <<fieldVars, locks, notStop>>

\* reset(): the six setters in the order of lines 481-486.
\* No other goroutine of the model touches lesService or whisperService, so
\* their two setters are one step.
ResetOrderNoRPCClient == <<"rs_config", "rs_services", "rs_started", "rs_node">>
ResetOrder == <<"rs_config", "rs_services", "rs_rpc", "rs_started", "rs_node">>
ResetNext(p) ==
  LET i == CHOOSE n \in 1..Len(ResetOrder) : ResetOrder[n] = p
  IN  IF i = Len(ResetOrder) THEN "closeLocal" ELSE ResetOrder[i + 1]

ResetConfig(j) ==
  /\ Alive /\ tpc[j] = "rs_config"
  /\ config' = Nil
  /\ Locked(<<"t", j>>, "config")
  /\ TGoto(j, ResetNext("rs_config"))
  /\ UNCHANGED <<node, nodeStarted, nodeStopped, whisperService, lesService, rpcClient, notStop>>

ResetServices(j) ==
  /\ Alive /\ tpc[j] = "rs_services"
  /\ lesService' = Nil
  /\ whisperService' = Nil
  /\ Locked(<<"t", j>>, "services")
  /\ TGoto(j, ResetNext("rs_services"))
  /\ UNCHANGED <<config, node, nodeStarted, nodeStopped, rpcClient, notStop>>

ResetRPCClient(j) ==
  /\ Alive /\ tpc[j] = "rs_rpc"
  /\ rpcClient' = Nil
  /\ Locked(<<"t", j>>, "rpcClient")
  /\ TGoto(j, ResetNext("rs_rpc"))
  /\ UNCHANGED <<config, node, nodeStarted, nodeStopped, whisperService, lesService, notStop>>

ResetNodeStarted(j) ==
  /\ Alive /\ tpc[j] = "rs_started"
  /\ \/ /\ Acquire("started", <<"t", j>>)
        /\ nodeStarted' = Nil
        /\ TGoto(j, ResetNext("rs_started"))
        /\ UNCHANGED <<config, node, nodeStopped, whisperService, lesService, rpcClient,
                       envVars, halted, callerVars, startVars, ppc>>
     \/ Wait4("started", <<"t", j>>) /\ UNCHANGED notBlocked

ResetNode(j) ==
  /\ Alive /\ tpc[j] = "rs_node"
  /\ \/ /\ Acquire("node", <<"t", j>>)
        /\ node' = Nil
        /\ TGoto(j, ResetNext("rs_node"))
        /\ UNCHANGED <<config, nodeStarted, nodeStopped, whisperService, lesService, rpcClient,
                       envVars, halted, callerVars, startVars, ppc>>
     \/ Wait4("node", <<"t", j>>) /\ UNCHANGED notBlocked

\* close(nodeStopped)                                       (line 182)
StopCloseLocal(j) ==
  /\ Alive /\ tpc[j] = "closeLocal"
  /\ stopDone' = stopDone \cup {j}
  /\ TGoto(j, "signal")
  /\ UNCHANGED <<fieldVars, blocked, locks, eth, startedClosed, stoppedClosed, signals, halted,
                 callerVars, startVars, ppc>>

\* signal.Send(EventNodeStopped)                            (lines 186-189)
StopSignal(j) ==
  /\ Alive /\ tpc[j] = "signal"
  /\ signals' = Append(signals, Sig("node.stopped", j))
  /\ TGoto(j, "done")
  /\ UNCHANGED <<fieldVars, blocked, locks, eth, startedClosed, stoppedClosed, stopDone, halted,
                 callerVars, startVars, ppc>>

StopStep(j) ==
  \/ ReadNodeStoppedRLock(j)
  \/ ReadNodeStopped(j)
  \/ ResetConfig(j)
  \/ ResetServices(j)
  \/ ResetRPCClient(j)
  \/ ResetNodeStarted(j)
  \/ ResetNode(j)
  \/ StopCloseLocal(j)
  \/ StopSignal(j)

\* ------------------------------------------------------------- ExecutionPolicy
\* eth_sendTransaction requests, each handled by ExecuteSendTransaction on a
\* thread of its own.  The request's JSON-RPC id is its number.
Reqs   == 1..MaxReqs
\* the host threads: one approves (Complete), one rejects (Discard)
Approver == 1
Rejecter == 2
Hosts    == {Approver, Rejecter}
notTx  == <<nodeVars, cellVars, callVars>>

SelectedKey == 1   \* selectedAcct.AccountKey.PrivateKey
SelectedAddress == 1   \* selectedAcct.Address
OtherAddress    == 2   \* an address of the keystore that is not selected
NoAddr          == 0
\* what req.ParseFromAddress() may give
FromAddrs       == {SelectedAddress, OtherAddress}
\* the address a key signs for
KeyAddress(key) == key
ToAddr      == 1   \* req.ParseToAddress(): the requests carry the same payload
NoTx        == [nonce |-> 0, to |-> 0, sig |-> 0]
NewTransaction(nonce, to) == [nonce |-> nonce, to |-> to, sig |-> 0]
SignTx(tx, key)           == [tx EXCEPT !.sig = key]
\* Transaction.Hash(): it covers the nonce, the payload and the signature
TxHash(tx)                == tx.sig * 100 + tx.nonce * 10 + tx.to

InternalError == 0 - 32603
NoRes              == [kind |-> "none", id |-> 0, result |-> 0, hash |-> 0, code |-> 0, err |-> "none"]
\* return nil, err
ErrReturn(e)       == [NoRes EXCEPT !.kind = "error", !.err = e]
\* newErrorResponse(call, -32603, err.Error(), &req.ID)
ErrorResponse(r, e) == [NoRes EXCEPT !.kind = "errorResponse", !.id = r, !.code = InternalError, !.err = e]

\* signal.Send of a transaction signal; txSignals[r]: those about r, in order
SendTxSignal(t, r) == txSignals' = [txSignals EXCEPT ![r] = Append(@, t)]
TxFresh ==
  /\ xpc = [r \in Reqs |-> "new"]
  /\ xup = [r \in Reqs |-> "unknown"]
  /\ xtx = [r \in Reqs |-> NoTx]
  /\ xfrom = [r \in Reqs |-> NoAddr]
  /\ xres = [r \in Reqs |-> NoRes]
  /\ xlog = [r \in Reqs |-> <<>>]
  /\ upNonce = 0
  /\ txQueue = {}
  /\ txStatus = [t \in Reqs |-> "none"]
  /\ txDone = [t \in Reqs |-> [set |-> FALSE, hash |-> 0, err |-> "none"]]
  /\ txWoken = [t \in Reqs |-> 0]
  /\ txWins = [t \in Reqs |-> 0]
  /\ txSubmitted = [t \in Reqs |-> NoTx]
  /\ txSignals = [r \in Reqs |-> <<>>]
  /\ hpc = [h \in Hosts |-> "idle"]
  /\ htx = [h \in Hosts |-> 0]
  /\ hres = [h \in Hosts |-> "none"]
  /\ hhash = [t \in Reqs |-> 0]
  /\ epc = [t \in Reqs |-> "off"]

\* the host threads share out the calls they make
TxInit == TxFresh /\ hquota \in {q \in [Hosts -> 0..MaxHostCalls] :
                                   q[Approver] + q[Rejecter] = MaxHostCalls}
\* no host thread calls the queue
TxOff  == TxFresh /\ hquota = [h \in Hosts |-> 0]

XDone(r, res) == /\ xpc' = [xpc EXCEPT ![r] = "done"]
                 /\ xres' = [xres EXCEPT ![r] = res]
XGoto(r, to)  == xpc' = [xpc EXCEPT ![r] = to] /\ UNCHANGED xres
XLogged(r, calls) == xlog' = [xlog EXCEPT ![r] = @ \o calls]
\* the error a call comes back with: NodeConfig's is ErrNoRunningNode
\* (part_000 line 345), the others are named after the call
StepError(call) == IF call = "NodeConfig" THEN "NoRunningNode" ELSE call

\* lines 29-33: config.UpstreamConfig.Enabled chooses the path
SendPathSwapped(enabled) == IF enabled THEN "local" ELSE "remote"
SendPath(enabled) == IF enabled THEN "remote" ELSE "local"

\* ExecuteSendTransaction, lines 23-34.  cfgOk, enabled: what NodeConfig() gave.
ExecuteSendTransaction(r, cfgOk, enabled) ==
  /\ xpc[r] = "new"
  /\ IF ~cfgOk
       THEN /\ XDone(r, ErrReturn(StepError("NodeConfig")))
            /\ XLogged(r, <<"NodeConfig">>)
            /\ UNCHANGED xup
       ELSE /\ xup' = [xup EXCEPT ![r] = IF enabled THEN "yes" ELSE "no"]
            /\ XLogged(r, <<"NodeConfig", SendPath(enabled)>>)
            /\ XGoto(r, SendPath(enabled))
  /\ UNCHANGED <<xtx, xfrom, upNonce, queueVars, hostVars, epc, notTx>>

\* ExecuteRemoteSendTransaction, lines 38-88: the calls it makes before it
\* submits, in order; the error of any of them is returned as it is
RemoteStepsSignFirst ==
  << "NodeConfig", "SelectedAccount", "RPCClient", "ParseFromAddress",
     "ParseToAddress", "SignTx", "EncodeToBytes", "eth_getTransactionCount" >>
RemoteSteps ==
  << "NodeConfig", "SelectedAccount", "RPCClient", "ParseFromAddress",
     "ParseToAddress", "eth_getTransactionCount", "SignTx", "EncodeToBytes" >>
NoFailure == 0

\* line 68: eth_getTransactionCount(addr, "latest").  Every transaction is
\* signed with the selected account's key, so the count of the other address
\* stays what it was.
OtherCount == 0
GetTransactionCount(addr) == IF addr = SelectedAddress THEN upNonce ELSE OtherCount

\* lines 38-88.  failed: the step whose error ends the request, if any; the
\* steps up to it have run.  from: the request's from address.  The nonce is
\* the count the upstream node gives for from; the key is the selected
\* account's, whatever from is.
RemoteBuild(r, failed, from) ==
  /\ xpc[r] = "remote"
  /\ IF failed = NoFailure
       THEN /\ xtx' = [xtx EXCEPT ![r] = SignTx(NewTransaction(GetTransactionCount(from), ToAddr), SelectedKey)]
            /\ xfrom' = [xfrom EXCEPT ![r] = from]
            /\ XLogged(r, RemoteSteps)
            /\ XGoto(r, "submit")
       ELSE /\ XDone(r, ErrReturn(StepError(RemoteSteps[failed])))
            /\ XLogged(r, SubSeq(RemoteSteps, 1, failed))
            /\ UNCHANGED <<xtx, xfrom>>
  /\ UNCHANGED <<xup, upNonce, queueVars, hostVars, epc, notTx>>

\* lines 99-106: the response of the remote path
RemoteResponse(r, result, txs) ==
  [NoRes EXCEPT !.kind = "response", !.id = r, !.result = result, !.hash = TxHash(txs)]

\* lines 91-108: eth_sendRawTransaction and the response.  The upstream node
\* takes a transaction whose nonce is the account's count and answers with its
\* hash; it refuses any other.
RemoteSubmit(r, ok) ==
  /\ xpc[r] = "submit"
  /\ XLogged(r, <<"eth_sendRawTransaction">>)
  /\ IF ok /\ xtx[r].nonce = upNonce
       THEN /\ upNonce' = upNonce + 1
            /\ XDone(r, RemoteResponse(r, TxHash(xtx[r]), xtx[r]))
       ELSE /\ XDone(r, ErrReturn(StepError("eth_sendRawTransaction")))
            /\ UNCHANGED upNonce
  /\ UNCHANGED <<xup, xtx, xfrom, queueVars, hostVars, epc, notTx>>

\* --- the transaction queue (not in src/: after the specification, 4.2-4.3)
QueueFull == Cardinality(txQueue) >= MaxQueue
\* the single compare-and-set on the status of a queued transaction
CompareAndSetBlind(t, from) == TRUE
CompareAndSet(t, from) == txStatus[t] = from

\* the one-shot completion channel of t is written
Wake(t, hash, e) ==
  /\ txDone' = [txDone EXCEPT ![t] = [set |-> TRUE, hash |-> hash, err |-> e]]
  /\ txWoken' = [txWoken EXCEPT ![t] = @ + 1]
  /\ txQueue' = txQueue \ {t}

\* ExecuteLocalSendTransaction, lines 113-120: processRPCCall builds the
\* QueuedTx, enqueues it, emits transaction.queued and waits.
LocalSend(r) ==
  /\ xpc[r] = "local"
  /\ IF QueueFull
       THEN /\ XDone(r, ErrorResponse(r, "QueueFull"))
            /\ UNCHANGED <<queueVars, epc>>
       ELSE /\ txQueue' = txQueue \cup {r}
            /\ txStatus' = [txStatus EXCEPT ![r] = "Pending"]
            /\ SendTxSignal("transaction.queued", r)
            /\ epc' = [epc EXCEPT ![r] = "armed"]
            /\ XGoto(r, "waiting")
            /\ UNCHANGED <<txDone, txWoken, txWins, txSubmitted>>
  /\ UNCHANGED <<xup, xtx, xfrom, xlog, upNonce, hostVars, notTx>>

\* lines 119-129: the hash, or the -32603 error response
LocalResponseHashOnly(r, done) ==
  [NoRes EXCEPT !.kind = "response", !.id = r, !.result = done.hash]
LocalResponseErrorSet(r, done) ==
  IF done.err # "none"
    THEN [NoRes EXCEPT !.kind = "response", !.id = r, !.result = done.hash,
                       !.code = InternalError, !.err = done.err]
    ELSE [NoRes EXCEPT !.kind = "response", !.id = r, !.result = done.hash]
LocalResponse(r, done) ==
  IF done.err # "none" THEN ErrorResponse(r, done.err)
  ELSE [NoRes EXCEPT !.kind = "response", !.id = r, !.result = done.hash]

LocalResume(r) ==
  /\ xpc[r] = "waiting" /\ txDone[r].set
  /\ XDone(r, LocalResponse(r, txDone[r]))
  /\ UNCHANGED <<xup, xtx, xfrom, xlog, upNonce, queueVars, hostVars, epc, notTx>>

HReturn(h, res) == /\ hpc' = [hpc EXCEPT ![h] = "idle"]
                   /\ hres' = [hres EXCEPT ![h] = res]
                   /\ htx' = [htx EXCEPT ![h] = 0]
HCalled(h)      == hquota' = [hquota EXCEPT ![h] = @ - 1]

\* Complete(t, password) and Discard(t) up to the compare-and-set
Terminate(h, t, status, to) ==
  /\ hpc[h] = "idle" /\ hquota[h] > 0
  /\ HCalled(h) /\ UNCHANGED hhash
  /\ IF t \notin txQueue
       THEN HReturn(h, "UnknownTx") /\ UNCHANGED queueVars
       ELSE IF ~CompareAndSet(t, "Pending")
         THEN HReturn(h, "AlreadyTerminal") /\ UNCHANGED queueVars
         ELSE /\ txStatus' = [txStatus EXCEPT ![t] = status]
              /\ txWins' = [txWins EXCEPT ![t] = @ + 1]
              /\ hpc' = [hpc EXCEPT ![h] = to]
              /\ htx' = [htx EXCEPT ![h] = t]
              /\ UNCHANGED <<hres, txQueue, txDone, txWoken, txSubmitted, txSignals>>
  /\ UNCHANGED <<reqVars, epc, notTx>>

Complete(h, t) == Terminate(h, t, "InProgress", "sign")
Discard(h, t)  == Terminate(h, t, "Failed", "wake")

\* Complete: unlock, sign, submit; the hash or the failure goes to the waiter
CompleteFinish(h, ok) ==
  /\ hpc[h] = "sign"
  /\ LET t  == htx[h]
         tx == SignTx(NewTransaction(Cardinality({u \in Reqs : txStatus[u] = "Done"}), ToAddr), SelectedKey)
     IN IF ok
          THEN /\ txStatus' = [txStatus EXCEPT ![t] = "Done"]
               /\ txSubmitted' = [txSubmitted EXCEPT ![t] = tx]
               /\ Wake(t, TxHash(tx), "none")
               /\ HReturn(h, "ok")
               /\ hhash' = [hhash EXCEPT ![t] = TxHash(tx)]
               /\ UNCHANGED txSignals
          ELSE /\ txStatus' = [txStatus EXCEPT ![t] = "Failed"]
               /\ SendTxSignal("transaction.failed", t)
               /\ Wake(t, 0, "Failed")
               /\ HReturn(h, "error")
               /\ UNCHANGED <<txSubmitted, hhash>>
  /\ UNCHANGED <<txWins, hquota, reqVars, epc, notTx>>

DiscardFinish(h) ==
  /\ hpc[h] = "wake"
  /\ SendTxSignal("transaction.failed", htx[h])
  /\ Wake(htx[h], 0, "Discarded")
  /\ HReturn(h, "ok")
  /\ UNCHANGED <<txStatus, txWins, txSubmitted, hquota, hhash, reqVars, epc, notTx>>

\* the TTL of t runs out
Expire(t) ==
  /\ epc[t] = "armed"
  /\ IF t \in txQueue /\ CompareAndSet(t, "Pending")
       THEN /\ txStatus' = [txStatus EXCEPT ![t] = "Expired"]
            /\ txWins' = [txWins EXCEPT ![t] = @ + 1]
            /\ epc' = [epc EXCEPT ![t] = "wake"]
       ELSE /\ epc' = [epc EXCEPT ![t] = "fired"]
            /\ UNCHANGED <<txStatus, txWins>>
  /\ UNCHANGED <<txQueue, txDone, txWoken, txSubmitted, txSignals, reqVars, hostVars, notTx>>

ExpireFinish(t) ==
  /\ epc[t] = "wake"
  /\ SendTxSignal("transaction.failed", t)
  /\ Wake(t, 0, "Expired")
  /\ epc' = [epc EXCEPT ![t] = "fired"]
  /\ UNCHANGED <<txStatus, txWins, txSubmitted, reqVars, hostVars, notTx>>

TxNext ==
  \/ \E r \in Reqs : \E cfgOk, enabled \in BOOLEAN : ExecuteSendTransaction(r, cfgOk, enabled)
  \/ \E r \in Reqs : \E failed \in 0..Len(RemoteSteps) : \E from \in FromAddrs :
       RemoteBuild(r, failed, from)
  \/ \E r \in Reqs : \E ok \in BOOLEAN : RemoteSubmit(r, ok)
  \/ \E r \in Reqs : LocalSend(r)
  \/ \E r \in Reqs : LocalResume(r)
  \/ \E t \in Reqs : Complete(Approver, t)
  \/ \E t \in Reqs : Discard(Rejecter, t)
  \/ \E h \in Hosts : \E ok \in BOOLEAN : CompleteFinish(h, ok)
  \/ \E h \in Hosts : DiscardFinish(h)
  \/ \E t \in Reqs : Expire(t)
  \/ \E t \in Reqs : ExpireFinish(t)

\* ------------------------------------------------------------- cells
\* TestJailRPCAsyncSend (jail_rpc_test.go lines 38-69): NumRuns goroutines
\* each Run the sendAsync command in the test's cell; beside them one thread
\* Calls into another cell.  The cell itself is not in src/: every entry into
\* a cell takes the cell's mutex (specification, 4.4 and 4.5).
Runs      == 1..NumRuns
Entries   == 1..(NumRuns + 1)
Cells     == {"test", "other"}
CellOf(i) == IF i \in Runs THEN "test" ELSE "other"
notCell   == <<nodeVars, txVars, callVars>>

CellInit ==
  /\ mutex = [c \in Cells |-> FALSE]
  /\ engine = [c \in Cells |-> {}]
  /\ broken = [c \in Cells |-> FALSE]
  /\ rpc = [i \in Entries |-> "go"]
  /\ apc = [i \in Runs |-> "none"]
  /\ testErr = FALSE
  /\ failedAsserts = 0

\* the cell's mutex can be taken
TryLockAlways(c) == TRUE
TryLock(c) == ~mutex[c]

\* a thread steps into the script engine of c; the engine is single-threaded
Enter(c, who) ==
  /\ TryLock(c)
  /\ mutex' = [mutex EXCEPT ![c] = TRUE]
  /\ engine' = [engine EXCEPT ![c] = @ \cup {who}]
  /\ broken' = [broken EXCEPT ![c] = @ \/ engine[c] # {}]
Leave(c, who) ==
  /\ mutex' = [mutex EXCEPT ![c] = FALSE]
  /\ engine' = [engine EXCEPT ![c] = @ \ {who}]
  /\ UNCHANGED broken

\* cell.Run / Call: lock the cell and evaluate
CellRun(i) ==
  /\ rpc[i] = "go"
  /\ Enter(CellOf(i), <<"run", i>>)
  /\ rpc' = [rpc EXCEPT ![i] = "script"]
  /\ UNCHANGED <<apc, testErr, failedAsserts, notCell>>

\* the script runs; the test's command calls sendAsync, which hands the
\* request to a goroutine and returns at once
CellScript(i) ==
  /\ rpc[i] = "script"
  /\ rpc' = [rpc EXCEPT ![i] = "leave"]
  /\ apc' = IF i \in Runs THEN [apc EXCEPT ![i] = "rpc"] ELSE apc
  /\ UNCHANGED <<mutex, engine, broken, testErr, failedAsserts, notCell>>

\* Run returns: the lock is released; line 60 stores the error in the err the
\* goroutines share (an engine two threads were in has lost its symbols)
CellReturn(i) ==
  /\ rpc[i] = "leave"
  /\ Leave(CellOf(i), <<"run", i>>)
  /\ IF i \in Runs
       THEN /\ testErr' = broken[CellOf(i)]
            /\ rpc' = [rpc EXCEPT ![i] = "assert"]
       ELSE /\ rpc' = [rpc EXCEPT ![i] = "done"]
            /\ UNCHANGED testErr
  /\ UNCHANGED <<apc, failedAsserts, notCell>>

\* line 65: s.NoError(err), then wg.Done()
AssertNoError(i) ==
  /\ rpc[i] = "assert"
  /\ failedAsserts' = IF testErr THEN failedAsserts + 1 ELSE failedAsserts
  /\ rpc' = [rpc EXCEPT ![i] = "done"]
  /\ UNCHANGED <<mutex, engine, broken, apc, testErr, notCell>>

\* sendAsync's goroutine: the RPC completes outside the cell ...
AsyncComplete(i) ==
  /\ apc[i] = "rpc"
  /\ apc' = [apc EXCEPT ![i] = "lane"]
  /\ UNCHANGED <<mutex, engine, broken, rpc, testErr, failedAsserts, notCell>>

\* ... and the callback is run on the cell's lane
AsyncCallback(i) ==
  /\ apc[i] = "lane"
  /\ Enter(CellOf(i), <<"callback", i>>)
  /\ apc' = [apc EXCEPT ![i] = "callback"]
  /\ UNCHANGED <<rpc, testErr, failedAsserts, notCell>>

AsyncReturn(i) ==
  /\ apc[i] = "callback"
  /\ Leave(CellOf(i), <<"callback", i>>)
  /\ apc' = [apc EXCEPT ![i] = "done"]
  /\ UNCHANGED <<rpc, testErr, failedAsserts, notCell>>

CellNext ==
  \/ \E i \in Entries : CellRun(i)
  \/ \E i \in Entries : CellScript(i)
  \/ \E i \in Entries : CellReturn(i)
  \/ \E i \in Runs : AssertNoError(i)
  \/ \E i \in Runs : AsyncComplete(i)
  \/ \E i \in Runs : AsyncCallback(i)
  \/ \E i \in Runs : AsyncReturn(i)

\* ------------------------------------------------------------- jail.Call
\* The tests Call into one cell (testChatID) from many goroutines.  Call takes
\* the cell's mutex, binds the params, runs the function of the catalog and
\* hands back what it returned (specification, 4.4); the cell is not in src/.
TheCell == "test"
Command(k) == k[1]
notCall == <<nodeVars, txVars, rpc, apc, testErr, failedAsserts>>
NoResponse == [set |-> FALSE, result |-> 0]

\* a JSON-RPC response object: the fields it has
NoField  == [set |-> FALSE, null |-> FALSE, val |-> 0]
NoError  == [set |-> FALSE, code |-> 0, message |-> "none"]
NoObject == [id |-> 0, result |-> NoField, error |-> NoError]

CallOff ==
  /\ kpc = <<>> /\ kres = <<>> /\ kacc = <<>>
  /\ cbpc = <<>> /\ cbenv = <<>>
  /\ bound = [val |-> 0] /\ value = 0 /\ total = 0
  /\ oresp = <<>> /\ oerr = <<>> /\ oout = <<>> /\ olog = <<>>
  /\ msgSeq = 0 /\ msgCtx = Nil

KGoto(k, to) == kpc' = [kpc EXCEPT ![k] = to]

\* jail.Call: lock the cell, bind the params of the call
CallEnter(k, params) ==
  /\ kpc[k] = "go"
  /\ Enter(TheCell, <<"call", k>>)
  /\ bound' = params
  /\ KGoto(k, "script")
  /\ UNCHANGED <<kres, cbpc, cbenv, value, total, kacc, otherVars, notCall>>

\* jail.Call returns the JSON of the value the function returned
CallReturn(k) ==
  /\ kpc[k] = "return"
  /\ Leave(TheCell, <<"call", k>>)
  /\ kres' = [kres EXCEPT ![k] = [set |-> TRUE, result |-> value]]
  /\ KGoto(k, "done")
  /\ UNCHANGED <<cbpc, cbenv, scriptVars, otherVars, notCall>>

\* --- TestCallResponseOrder (jail_rpc_test.go lines 380-430): for every i one
\* goroutine Calls testCommand with {val: i}, one calculateGasPrice with i.
OrderCalls == {"testCommand", "calculateGasPrice"} \X (0..(NumCalls - 1))
OrderParams(k) == [val |-> k[2]]
\* the JSON-RPC id of the request the script of k sends
ReqId(k) == k[2] + 1

\* line 388: return params.val * params.val
TestCommand(params) == params.val * params.val
\* line 391: Math.pow(1.4, n).toFixed(3), in thousandths
GasMultiplicator(n) == ((14 ^ n) * 1000 + (10 ^ n) \div 2) \div (10 ^ n)
\* line 392: var price = 211000000000, in Gwei
DefaultPrice == 211
\* the gas price the upstream node answers with, in Gwei
RawPrice == 20

TestCommandRun(k) ==
  /\ kpc[k] = "script" /\ Command(k) = "testCommand"
  /\ value' = TestCommand(bound)
  /\ KGoto(k, "return")
  /\ UNCHANGED <<kres, cbpc, cbenv, bound, total, kacc, otherVars, cellVars, notCall>>

\* --- ExecuteOtherTransaction (execcution_policy.go lines 134-196), run by
\* web3.eth.gasPrice (test line 394) inside the Call of k
\* common.StopRPCCallError{Err: err}
StopRPCCallError(e) == "StopRPCCall: " \o e
OGoto(k, to) == kpc' = [kpc EXCEPT ![k] = to]
Logged(k, what) == olog' = [olog EXCEPT ![k] = Append(@, what)]

\* json.RawMessage: nil, or a text that JSON.parse takes or refuses
NilRaw == [set |-> FALSE, json |-> FALSE, val |-> 0]
Raw(json, v) == [set |-> TRUE, json |-> json, val |-> v]
\* JSON.Call("parse", string(result)), line 170
JSONParse(raw) == [ok |-> raw.json, val |-> IF raw.json THEN raw.val ELSE 0]
\* an rpc.Error's ErrorCode()
ServerError == 0 - 32000
NoOutcome == [err |-> "none", code |-> 0, result |-> NilRaw]
\* what client.Call (line 158) can come back with: err and result
UpstreamOutcomes ==
  { [err |-> "nil", code |-> 0, result |-> Raw(TRUE, RawPrice)],
    [err |-> "nil", code |-> 0, result |-> Raw(FALSE, RawPrice)],
    [err |-> "nil", code |-> 0, result |-> NilRaw],
    [err |-> "rpc.Error", code |-> ServerError, result |-> NilRaw],
    [err |-> "timeout", code |-> 0, result |-> NilRaw] }

\* lines 147-148: resp with the id of the request
Resp(id) == [NoObject EXCEPT !.id = id]
NullValue == [set |-> TRUE, null |-> TRUE, val |-> 0]
Parsed(v) == [set |-> TRUE, null |-> FALSE, val |-> v]
\* newErrorResponse(call, code, message, &req.ID)
NewErrorResponse(code, message, id) ==
  [NoObject EXCEPT !.id = id, !.error = [set |-> TRUE, code |-> code, message |-> message]]

\* lines 160-190: the switch on the error of client.Call
ClassifyOmitNull(resp, out) ==
  CASE out.err = "nil" /\ ~out.result.set -> resp
    [] out.err = "nil" /\ out.result.set -> [resp EXCEPT !.result = Parsed(out.result.val)]
    [] out.err = "rpc.Error" ->
         [resp EXCEPT !.error = [set |-> TRUE, code |-> out.code, message |-> out.err]]
    [] OTHER -> NewErrorResponse(InternalError, out.err, resp.id)
Classify(resp, out) ==
  CASE out.err = "nil" ->
         IF ~out.result.set
           THEN [resp EXCEPT !.result = NullValue]
           ELSE IF JSONParse(out.result).ok
             THEN [resp EXCEPT !.result = Parsed(JSONParse(out.result).val)]
             ELSE NewErrorResponse(InternalError, "parse", resp.id)
    [] out.err = "rpc.Error" ->
         [resp EXCEPT !.error = [set |-> TRUE, code |-> out.code, message |-> out.err]]
    [] OTHER -> NewErrorResponse(InternalError, out.err, resp.id)

\* lines 135-138: manager.RPCClient()
OtherRPCClient(k, ok) ==
  /\ kpc[k] = "script" /\ Command(k) = "calculateGasPrice"
  /\ IF ok
       THEN OGoto(k, "pre") /\ UNCHANGED oerr
       ELSE /\ oerr' = [oerr EXCEPT ![k] = StopRPCCallError(StepError("RPCClient"))]
            /\ OGoto(k, "price")
  /\ UNCHANGED <<kres, cbpc, cbenv, scriptVars, oresp, oout, olog, msgSeq, msgCtx, cellVars, notCall>>

\* lines 153-156: preProcessRequest gives the request the next message id of
\* the cell and exposes it in the cell (not in src/: specification, 4.2)
PreProcessRequest(k, ok) ==
  /\ kpc[k] = "pre"
  /\ IF ok
       THEN /\ msgSeq' = msgSeq + 1
            /\ msgCtx' = msgSeq + 1
            /\ Logged(k, "preProcessRequest")
            /\ OGoto(k, "call")
            /\ UNCHANGED oerr
       ELSE /\ oerr' = [oerr EXCEPT ![k] = StopRPCCallError("preProcessRequest")]
            /\ OGoto(k, "price")
            /\ UNCHANGED <<msgSeq, msgCtx, olog>>
  /\ UNCHANGED <<kres, cbpc, cbenv, scriptVars, oresp, oout, cellVars, notCall>>

\* send keeps the mutex of its cell while the call is with the upstream node
\* (specification, 4.5)
SendReleasesLane == FALSE
SendHoldsLane == TRUE

\* line 158: client.Call goes out ...
ClientCall(k) ==
  /\ kpc[k] = "call"
  /\ Logged(k, "client.Call")
  /\ mutex' = IF SendHoldsLane THEN mutex ELSE [mutex EXCEPT ![TheCell] = FALSE]
  /\ OGoto(k, "upstream")
  /\ UNCHANGED <<kres, cbpc, cbenv, scriptVars, oresp, oerr, oout, msgSeq, msgCtx,
                 engine, broken, notCall>>

\* lines 160-193: every branch of the switch runs on to postProcessRequest
AfterSwitchErrorReturns(out) == IF out.err \in {"nil", "rpc.Error"} THEN "post" ELSE "price"
AfterSwitch(out) == "post"

\* ... and comes back; lines 160-190 make the response of it
ClientCallReturn(k, out) ==
  /\ kpc[k] = "upstream"
  /\ SendHoldsLane \/ TryLock(TheCell)
  /\ mutex' = [mutex EXCEPT ![TheCell] = TRUE]
  /\ oresp' = [oresp EXCEPT ![k] = Classify(Resp(ReqId(k)), out)]
  /\ oout' = [oout EXCEPT ![k] = out]
  /\ OGoto(k, AfterSwitch(out))
  /\ UNCHANGED <<kres, cbpc, cbenv, scriptVars, oerr, olog, msgSeq, msgCtx,
                 engine, broken, notCall>>

\* lines 193-195: postProcessRequest clears the message id the cell exposes;
\* return resp, nil
PostProcessRequest(k) ==
  /\ kpc[k] = "post"
  /\ msgCtx' = Nil
  /\ Logged(k, "postProcessRequest")
  /\ OGoto(k, "price")
  /\ UNCHANGED <<kres, cbpc, cbenv, scriptVars, oresp, oerr, oout, msgSeq, cellVars, notCall>>

\* test lines 392-397: the price web3.eth.gasPrice gave, or the default when
\* it threw; return price * gasMultiplicator
GasPrice(resp, err) ==
  IF err = "none" /\ resp.result.set /\ ~resp.result.null THEN resp.result.val
  ELSE DefaultPrice
CalculateGasPrice(n, price) == price * GasMultiplicator(n)

CalculateGasPriceRun(k) ==
  /\ kpc[k] = "price"
  /\ value' = CalculateGasPrice(bound.val, GasPrice(oresp[k], oerr[k]))
  /\ KGoto(k, "return")
  /\ UNCHANGED <<kres, cbpc, cbenv, bound, total, kacc, otherVars, cellVars, notCall>>

CallOrderInit ==
  /\ kpc = [k \in OrderCalls |-> "go"]
  /\ kres = [k \in OrderCalls |-> NoResponse]
  /\ kacc = <<>> /\ cbpc = <<>> /\ cbenv = <<>>
  /\ bound = [val |-> 0] /\ value = 0 /\ total = 0
  /\ oresp = [k \in OrderCalls |-> NoObject]
  /\ oerr = [k \in OrderCalls |-> "none"]
  /\ oout = [k \in OrderCalls |-> NoOutcome]
  /\ olog = [k \in OrderCalls |-> <<>>]
  /\ msgSeq = 0 /\ msgCtx = Nil

CallOrderNext ==
  \/ \E k \in OrderCalls : CallEnter(k, OrderParams(k))
  \/ \E k \in OrderCalls : TestCommandRun(k)
  \/ \E k \in OrderCalls : \E ok \in BOOLEAN : OtherRPCClient(k, ok)
  \/ \E k \in OrderCalls : \E ok \in BOOLEAN : PreProcessRequest(k, ok)
  \/ \E k \in OrderCalls : ClientCall(k)
  \/ \E k \in OrderCalls : \E out \in UpstreamOutcomes : ClientCallReturn(k, out)
  \/ \E k \in OrderCalls : PostProcessRequest(k)
  \/ \E k \in OrderCalls : CalculateGasPriceRun(k)
  \/ \E k \in OrderCalls : CallReturn(k)

\* --- TestJailVMPersistence (jail_rpc_test.go lines 227-376): the script has a
\* global total; ping adds params.amount to it, sendTestTx sends a transaction
\* whose callback adds the amount when it is given no error.  Amounts are in
\* millionths.
TestCases ==
  << [command |-> "sendTestTx", amount |-> 1, pong |-> "none"],
     [command |-> "sendTestTx", amount |-> 2, pong |-> "none"],
     [command |-> "ping", amount |-> 420000, pong |-> "Ping1"],
     [command |-> "ping", amount |-> 420000, pong |-> "Ping2"] >>
PersistCalls == {<<TestCases[n].command, n>> : n \in 1..Len(TestCases)}
PersistParams(k) == TestCases[k[2]]
SendCalls == {k \in PersistCalls : Command(k) = "sendTestTx"}

\* lines 293, 306: total += Number(amount)
AccumulateOverwrite(t, amount) == amount
Accumulate(t, amount) == t + amount

PersistInit ==
  /\ kpc = [k \in PersistCalls |-> "go"]
  /\ kres = [k \in PersistCalls |-> NoResponse]
  /\ kacc = [k \in PersistCalls |-> 0]
  /\ cbpc = [k \in SendCalls |-> "none"]
  /\ cbenv = [k \in SendCalls |-> [amount |-> 0, error |-> FALSE]]
  /\ bound = [command |-> "none", amount |-> 0, pong |-> "none"]
  /\ value = "undefined" /\ total = 0
  /\ oresp = <<>> /\ oerr = <<>> /\ oout = <<>> /\ olog = <<>>
  /\ msgSeq = 0 /\ msgCtx = Nil

\* line 293, first half: the engine loads total ...
PingLoad(k) ==
  /\ kpc[k] = "script" /\ Command(k) = "ping"
  /\ kacc' = [kacc EXCEPT ![k] = total]
  /\ KGoto(k, "store")
  /\ UNCHANGED <<kres, cbpc, cbenv, bound, value, total, otherVars, cellVars, notCall>>

\* ... and stores the sum; line 294: return params.pong
PingStore(k) ==
  /\ kpc[k] = "store"
  /\ total' = Accumulate(kacc[k], bound.amount)
  /\ value' = bound.pong
  /\ KGoto(k, "return")
  /\ UNCHANGED <<kres, cbpc, cbenv, bound, kacc, otherVars, cellVars, notCall>>

\* lines 298-308: web3.eth.sendTransaction(transaction, callback) hands the
\* request to a goroutine; the callback keeps the amount
SendTestTx(k) ==
  /\ kpc[k] = "script" /\ Command(k) = "sendTestTx"
  /\ cbpc' = [cbpc EXCEPT ![k] = "rpc"]
  /\ cbenv' = [cbenv EXCEPT ![k].amount = bound.amount]
  /\ value' = "undefined"
  /\ KGoto(k, "return")
  /\ UNCHANGED <<kres, bound, total, kacc, otherVars, cellVars, notCall>>

\* lines 314-331: the host completes the queued transaction, or it fails
SendCompleted(k, ok) ==
  /\ cbpc[k] = "rpc"
  /\ cbpc' = [cbpc EXCEPT ![k] = "lane"]
  /\ cbenv' = [cbenv EXCEPT ![k].error = ~ok]
  /\ UNCHANGED <<kpc, kres, scriptVars, otherVars, cellVars, notCall>>

\* the callback is run on the cell's lane (specification, 4.5)
CallbackEnter(k) ==
  /\ cbpc[k] = "lane"
  /\ Enter(TheCell, <<"callback", k>>)
  /\ cbpc' = [cbpc EXCEPT ![k] = "load"]
  /\ UNCHANGED <<kpc, kres, cbenv, scriptVars, otherVars, notCall>>

\* lines 305-306: if (!error) total += Number(amount)
CallbackLoad(k) ==
  /\ cbpc[k] = "load"
  /\ IF cbenv[k].error
       THEN cbpc' = [cbpc EXCEPT ![k] = "leave"] /\ UNCHANGED kacc
       ELSE /\ kacc' = [kacc EXCEPT ![k] = total]
            /\ cbpc' = [cbpc EXCEPT ![k] = "store"]
  /\ UNCHANGED <<kpc, kres, cbenv, bound, value, total, otherVars, cellVars, notCall>>

CallbackStore(k) ==
  /\ cbpc[k] = "store"
  /\ total' = Accumulate(kacc[k], cbenv[k].amount)
  /\ cbpc' = [cbpc EXCEPT ![k] = "leave"]
  /\ UNCHANGED <<kpc, kres, cbenv, bound, value, kacc, otherVars, cellVars, notCall>>

CallbackLeave(k) ==
  /\ cbpc[k] = "leave"
  /\ Leave(TheCell, <<"callback", k>>)
  /\ cbpc' = [cbpc EXCEPT ![k] = "done"]
  /\ UNCHANGED <<kpc, kres, cbenv, scriptVars, otherVars, notCall>>

PersistNext ==
  \/ \E k \in PersistCalls : CallEnter(k, PersistParams(k))
  \/ \E k \in PersistCalls : PingLoad(k)
  \/ \E k \in PersistCalls : PingStore(k)
  \/ \E k \in PersistCalls : SendTestTx(k)
  \/ \E k \in SendCalls : \E ok \in BOOLEAN : SendCompleted(k, ok)
  \/ \E k \in SendCalls : CallbackEnter(k)
  \/ \E k \in SendCalls : CallbackLoad(k)
  \/ \E k \in SendCalls : CallbackStore(k)
  \/ \E k \in SendCalls : CallbackLeave(k)
  \/ \E k \in PersistCalls : CallReturn(k)

\* ------------------------------------------------------------- specification
vars == <<nodeVars, txVars, cellVars, callVars>>

Init == NodeInit /\ TxOff /\ CellInit /\ CallOff

Next ==
  \/ \E c \in Callers : CallerStep(c)
  \/ \E k \in StartIds : StartStep(k)
  \/ \E k \in StartIds : PeersStep(k)
  \/ \E j \in StartIds : StopStep(j)

Spec == Init /\ [][Next]_vars

\* the execution policy and the transaction queue on their own
TxStart == NodeOff /\ TxInit /\ CellInit /\ CallOff
TxSpec  == TxStart /\ [][TxNext]_vars

\* the cells on their own
CellStart == NodeOff /\ TxOff /\ CellInit /\ CallOff
CellSpec  == CellStart /\ [][CellNext]_vars

\* TestCallResponseOrder on its own
CallOrderStart == NodeOff /\ TxOff /\ CellInit /\ CallOrderInit
CallOrderSpec  == CallOrderStart /\ [][CallOrderNext]_vars

\* TestJailVMPersistence on its own
PersistStart == NodeOff /\ TxOff /\ CellInit /\ PersistInit
PersistSpec  == PersistStart /\ [][PersistNext]_vars


\* ------------------------------------------------------------- properties
Range(q)       == {q[i] : i \in 1..Len(q)}
Emitted(t, i)  == Sig(t, i) \in Range(signals)
Count(t, i)    == Cardinality({n \in 1..Len(signals) : signals[n] = Sig(t, i)})
\* x was emitted, and before y was (y need not have been emitted)
Before(x, y)   == \E n \in 1..Len(signals) :
                    /\ signals[n] = x
                    /\ \A m \in 1..n : signals[m] # y

LiveNodes      == {k \in StartIds : eth[k] = "running"}

\* Thread c's call returns in this step.
Returns(c)     == /\ cpc'[c] = "idle"
                  /\ cpc[c] # "idle" \/ quota'[c] < quota[c]
\* Thread c's call is made in this step.
Calls(c)       == quota'[c] < quota[c]
\* the method called in a step in which thread c makes a call
CalledOp(c)    == IF cpc'[c] = "idle" THEN ret'.op ELSE cop'[c]

\* C1: under any interleaving of StartNode, StopNode, RestartNode and
\* ResetChainData at most one underlying node is live (started and not yet
\* stopped) in every reachable state.
C1_AtMostOneLiveNode == Cardinality(LiveNodes) <= 1

\* C2: the started channel a StartNode call returned without error is closed
\* in the end, whatever the outcome of the start: once the start goroutine of
\* that channel has run to its end, the channel is closed.
C2_StartedChannelClosed ==
  \A k \in StartIds :
    (ret.op = "StartNode" /\ ret.err = "ok" /\ ret.val = k /\ spc[k] = "done")
      => k \in startedClosed

\* C3: a fatal error during Starting (ethNode.Start fails, or the RPC client
\* cannot be constructed) emits exactly one node.crashed signal and leaves the
\* manager Idle: node, started channel, config and RPC client are all nil.
\* Stated for a start that is the only one made so far.
C3_CrashReturnsToIdle ==
  \A k \in StartIds :
    (spc[k] = "done" /\ Emitted("node.crashed", k) /\ Made = {k})
      => /\ Count("node.crashed", k) = 1
         /\ node = Nil /\ nodeStarted = Nil /\ config = Nil /\ rpcClient = Nil

\* C4: whenever Node, NodeConfig or AccountKeyStore returns without error,
\* the node handle, the configuration and the RPC client are all non-nil at
\* that moment and belong to the same start.
FullyWired == /\ node # Nil /\ config # Nil /\ rpcClient # Nil
              /\ rpcClient = node /\ config = scfg[node]

C4_NoHalfInitializedNode ==
  [][\A c \in Callers :
       (Returns(c) /\ ret'.op \in {"Node", "NodeConfig", "AccountKeyStore"} /\ ret'.err = "ok")
         => FullyWired']_vars

\* C5: an accessor called after StartNode was accepted does not hand a value
\* to its caller before the started channel of that start is closed.
StartedOpen == nodeStarted # Nil /\ nodeStarted \notin startedClosed

C5_AccessorsWaitForStarted ==
  [][\A c \in Callers :
       (Returns(c) /\ ret'.op \in Accessors /\ ret'.err = "ok" /\ ret'.val # Nil)
         => ~StartedOpen']_vars

\* C6: after the stopped channel of a stop has closed and until the next
\* StartNode is accepted, every accessor and every lifecycle call that needs a
\* running node fails with NoRunningNode and changes nothing.
\* Stated for the calls made while every node made so far has been stopped
\* and no thread is inside startNode.
QuietWindow == /\ stopDone # {} /\ Made = stopDone
               /\ \A c \in Callers : cpc[c] = "idle"

C6_NoRunningNodeAfterStop ==
  [][\A c \in Callers :
       (QuietWindow /\ Calls(c) /\ CalledOp(c) # "StartNode")
         => /\ Returns(c)
            /\ ret'.err = "NoRunningNode"
            /\ UNCHANGED <<fieldVars, signals>>]_vars

\* C7: the node.stopped signal of a stop is emitted before the node.started
\* signal of any start issued after that stop's stopped channel closed.
C7_StoppedBeforeNextStarted ==
  \A k \in StartIds : \A j \in safter[k] :
    Emitted("node.started", k)
      => Before(Sig("node.stopped", j), Sig("node.started", k))

TxCount(t, r)  == Cardinality({n \in 1..Len(txSignals[r]) : txSignals[r][n] = t})
Queued(r)      == TxCount("transaction.queued", r)
Failed(r)      == TxCount("transaction.failed", r)
QueuedFirst(r) == \E n, m \in 1..Len(txSignals[r]) :
                    /\ n < m
                    /\ txSignals[r][n] = "transaction.queued"
                    /\ txSignals[r][m] = "transaction.failed"

\* what a finished request of the remote path has produced
RemoteOutcome(r) ==
  /\ Queued(r) = 0 /\ Failed(r) = 0
  /\ \/ xres[r].kind = "error"
     \/ /\ xres[r].kind = "response" /\ xres[r].id = r
        /\ xres[r].hash = TxHash(xtx[r])
\* what a finished request of the local path has produced
LocalOutcome(r) ==
  \/ /\ xres[r] = ErrorResponse(r, "QueueFull")
     /\ Queued(r) = 0 /\ Failed(r) = 0
  \/ /\ Queued(r) = 1 /\ Failed(r) = 1 /\ QueuedFirst(r)
     /\ xres[r].kind = "errorResponse" /\ xres[r].code = InternalError
  \/ /\ Queued(r) = 1 /\ Failed(r) = 0
     /\ txStatus[r] = "Done"
     /\ xres[r].kind = "response" /\ xres[r].id = r
     /\ xres[r].result = TxHash(txSubmitted[r])

\* C8, as the code has it: ExecuteSendTransaction takes the remote path
\* exactly when the upstream is enabled.  A request of the local path that
\* the queue accepts produces exactly one transaction.queued signal and then
\* exactly one outcome, a transaction.failed signal with a -32603 error
\* response or the hash of the submitted transaction; one the queue refuses
\* (QueueFull) produces no signal.  A request of the remote path produces no
\* signal at all: it ends in a returned error or in a response whose hash is
\* the hash of the transaction it built and signed.
C8_SendOutcome ==
  \A r \in Reqs :
    /\ Queued(r) <= 1 /\ Failed(r) <= 1
    /\ xup[r] = "yes" => xpc[r] \notin {"local", "waiting"}
    /\ xup[r] = "no" => xpc[r] \notin {"remote", "submit"}
    /\ xup[r] = "unknown" => Queued(r) = 0 /\ Failed(r) = 0
    /\ xpc[r] = "done" =>
         /\ xup[r] = "unknown" => xres[r] = ErrReturn("NoRunningNode")
         /\ xup[r] = "yes" => RemoteOutcome(r)
         /\ xup[r] = "no" => LocalOutcome(r)

\* C8 reached: one request answered on the remote path, one on the local path
C8_BothPathsAnswered ==
  \E r1, r2 \in Reqs :
    /\ xpc[r1] = "done" /\ xup[r1] = "yes" /\ xres[r1].kind = "response"
    /\ xpc[r2] = "done" /\ xup[r2] = "no" /\ xres[r2].kind = "response"

\* C8, as stated: every request ExecuteSendTransaction handled, on either
\* path, has produced exactly one transaction.queued signal and exactly one
\* outcome: a transaction.failed signal, or a completion with the hash.
C8_EverySendQueuedOnce ==
  \A r \in Reqs :
    (xpc[r] = "done" /\ xup[r] # "unknown") =>
      /\ Queued(r) = 1
      /\ \/ Failed(r) = 1 /\ xres[r].kind # "response"
         \/ /\ Failed(r) = 0 /\ xres[r].kind = "response"
            /\ xup[r] = "yes" => xres[r].hash = TxHash(xtx[r])
            /\ xup[r] = "no" => xres[r].result = TxHash(txSubmitted[r])

\* C9: of the Complete, Discard and TTL expiry that race for a queued
\* transaction exactly one wins the compare-and-set, and the waiter is woken
\* once; a call that loses returns AlreadyTerminal or UnknownTx, an expiry
\* that loses fires idly, and neither changes anything of the queue or of
\* the requests.
C9_AtMostOnceTermination ==
  [][/\ \A t \in Reqs :
          /\ txWoken'[t] <= 1 /\ txWins'[t] <= 1
          /\ txDone'[t].set =>
               /\ txWoken'[t] = 1 /\ txWins'[t] = 1
               /\ txStatus'[t] \in {"Done", "Failed", "Expired"}
          /\ (epc[t] = "armed" /\ epc'[t] = "fired") => UNCHANGED <<queueVars, reqVars>>
     /\ \A h \in Hosts :
          hquota'[h] < hquota[h] =>
            \/ /\ hres'[h] \in {"AlreadyTerminal", "UnknownTx"} /\ hpc'[h] = "idle"
               /\ UNCHANGED <<queueVars, reqVars>>
            \/ /\ txStatus[htx'[h]] = "Pending"
               /\ txWins'[htx'[h]] = 1
               /\ \A u \in Reqs \ {htx'[h]} : txStatus'[u] = txStatus[u]]_vars

\* C9 reached: a transaction completed by one host, after a second call on it
\* saw AlreadyTerminal, a third UnknownTx, and its TTL ran out idly
C9_RaceDecided ==
  \E t \in Reqs :
    /\ txStatus[t] = "Done" /\ txWoken[t] = 1 /\ epc[t] = "fired"
    /\ xpc[t] = "done"
    /\ \E h1, h2 \in Hosts : hres[h1] = "AlreadyTerminal" /\ hres[h2] = "UnknownTx"

AllEntriesDone == /\ \A i \in Entries : rpc[i] = "done"
                  /\ \A i \in Runs : apc[i] = "done"

\* C10: at most one thread is inside the script engine of a cell at any
\* time; the Run goroutines of the test and the sendAsync callbacks never
\* meet in the engine, no NoError assertion fails, and as long as an entry or
\* a callback is outstanding one of them can take a step.
C10_CellSerialized ==
  /\ \A c \in Cells : Cardinality(engine[c]) <= 1 /\ ~broken[c]
  /\ ~testErr /\ failedAsserts = 0
  /\ ~AllEntriesDone => ENABLED CellNext

\* C10 reached: a Run is inside the test cell's engine while a callback waits
\* for the lane, a thread is inside the other cell's engine at the same time,
\* and one Run has finished with its callback delivered
C10_LaneContended ==
  /\ \E i \in Runs : <<"run", i>> \in engine["test"]
  /\ \E i \in Runs : apc[i] = "lane"
  /\ engine["other"] # {}
  /\ \E i \in Runs : rpc[i] = "done" /\ apc[i] = "done"

Applied == {k \in DOMAIN kpc : Command(k) = "ping" /\ kpc[k] \in {"return", "done"}}
             \cup {k \in DOMAIN cbpc : cbpc[k] \in {"leave", "done"} /\ ~cbenv[k].error}
RECURSIVE SumOfAmounts(_)
SumOfAmounts(S) == IF S = {} THEN 0
                   ELSE LET k == CHOOSE x \in S : TRUE
                        IN TestCases[k[2]].amount + SumOfAmounts(S \ {k})
AllCallsDone == /\ \A k \in DOMAIN kpc : kpc[k] = "done"
                /\ \A k \in DOMAIN cbpc : cbpc[k] = "done"

\* C12: the script's total persists from call to call and no addition to it
\* is lost: at every moment total is the initial 0 plus the amounts of the
\* pings and of the successful sendTransaction callbacks that have run, each
\* counted once, whatever the order the calls and the callbacks came in; each
\* ping is answered with its own pong.
C12_NoLostUpdate ==
  /\ total = SumOfAmounts(Applied)
  /\ \A k \in DOMAIN kres :
       (kres[k].set /\ Command(k) = "ping") => kres[k].result = TestCases[k[2]].pong

\* C12 reached: the four calls and the two callbacks are through, no send
\* failed, and total is 0.840003
C12_AllApplied ==
  /\ AllCallsDone
  /\ Cardinality(Applied) = Len(TestCases)
  /\ total = 840003

\* how often request r has made the call
XCount(r, call) == Cardinality({n \in 1..Len(xlog[r]) : xlog[r][n] = call})
\* r has made a call that only ExecuteRemoteSendTransaction makes
RemoteTouched(r) == \/ xtx[r] # NoTx
                    \/ \E n \in 1..Len(xlog[r]) :
                         xlog[r][n] \in (Range(RemoteSteps) \ {"NodeConfig"}) \cup {"eth_sendRawTransaction"}
\* r has reached the transaction queue
LocalTouched(r) == txStatus[r] # "none" \/ Queued(r) > 0 \/ r \in txQueue

\* C13: a request whose configuration read UpstreamConfig.Enabled as true has
\* entered ExecuteRemoteSendTransaction once and the local path never; one
\* that read it as false has entered ExecuteLocalSendTransaction once and the
\* remote path never; one whose NodeConfig() failed has entered neither, has
\* touched neither the upstream node nor the queue, and has returned the error.
C13_OnePathPerRequest ==
  \A r \in Reqs :
    /\ XCount(r, "remote") + XCount(r, "local") <= 1
    /\ xup[r] = "yes" <=> XCount(r, "remote") = 1
    /\ xup[r] = "no" <=> XCount(r, "local") = 1
    /\ RemoteTouched(r) => xup[r] = "yes"
    /\ LocalTouched(r) => xup[r] = "no"
    /\ (xup[r] = "unknown" /\ xpc[r] # "new") =>
         /\ xpc[r] = "done" /\ xres[r] = ErrReturn("NoRunningNode")
         /\ xlog[r] = <<"NodeConfig">>

\* C13 reached: one request waits in the queue on the local path, another has
\* built its transaction on the remote path, both having read the configuration
C13_BothPathsTaken ==
  \E r1, r2 \in Reqs :
    /\ xup[r1] = "no" /\ xpc[r1] = "waiting" /\ r1 \in txQueue
    /\ xup[r2] = "yes" /\ xpc[r2] = "submit" /\ xtx[r2] # NoTx

\* the place of a call in the log of r, 0 when r has not made it
XIndex(r, call) == IF XCount(r, call) = 0 THEN 0
                   ELSE CHOOSE n \in 1..Len(xlog[r]) : xlog[r][n] = call
\* the calls of the remote path that can fail before the submission
BeforeSubmit == { "NodeConfig", "SelectedAccount", "RPCClient", "ParseFromAddress",
                  "ParseToAddress", "eth_getTransactionCount", "SignTx", "EncodeToBytes" }

\* C14: on the remote path the nonce is fetched before the transaction is
\* signed and the transaction is signed, with the selected account's key,
\* before it is submitted; eth_sendRawTransaction is issued at most once per
\* request and only after every earlier call succeeded, carrying the nonce
\* that was fetched; a request that returns an error returns no response.
C14_RemoteOrder ==
  \A r \in Reqs :
    /\ XCount(r, "eth_sendRawTransaction") <= 1
    /\ XCount(r, "SignTx") = 1 =>
         /\ XCount(r, "eth_getTransactionCount") = 1
         /\ XIndex(r, "eth_getTransactionCount") < XIndex(r, "SignTx")
    /\ XCount(r, "eth_sendRawTransaction") = 1 =>
         /\ \A c \in BeforeSubmit :
              XCount(r, c) >= 1 /\ XIndex(r, c) < XIndex(r, "eth_sendRawTransaction")
         /\ xtx[r].sig = SelectedKey
         /\ xres[r].err \notin BeforeSubmit \cup {"NoRunningNode"}
    /\ (xpc[r] = "done" /\ xup[r] = "yes" /\ xres[r].err \in BeforeSubmit \cup {"NoRunningNode"}) =>
         /\ XCount(r, "eth_sendRawTransaction") = 0
         /\ xlog[r][Len(xlog[r])] \in BeforeSubmit
    /\ xres[r].kind = "error" =>
         xres[r].id = 0 /\ xres[r].result = 0 /\ xres[r].hash = 0
    /\ (xup[r] = "yes" /\ xres[r].kind = "response") =>
         /\ XCount(r, "eth_sendRawTransaction") = 1
         /\ xres[r].hash = TxHash(xtx[r])

\* C14 reached: one request was submitted and answered, another gave up at
\* the nonce fetch without submitting
C14_SubmittedAndAborted ==
  \E r1, r2 \in Reqs :
    /\ xpc[r1] = "done" /\ xres[r1].kind = "response" /\ xup[r1] = "yes"
    /\ xpc[r2] = "done" /\ xres[r2] = ErrReturn("eth_getTransactionCount")

\* C15: a request of the local path that the queue took stays blocked, with
\* nothing handed back, until its transaction has terminated.  When the
\* transaction was completed the response carries the request's id and, as
\* result, the hash Complete returned to the host, and no error; when it was
\* discarded, failed or timed out the response is an error object with code
\* -32603 and the request's id.  The call never returns a Go error.
C15_LocalSendResponse ==
  \A r \in Reqs :
    xup[r] = "no" =>
      /\ xres[r].kind # "error"
      /\ (xpc[r] = "waiting" \/ ~txDone[r].set) => xres[r] \in {NoRes, ErrorResponse(r, "QueueFull")}
      /\ (xpc[r] = "done" /\ Queued(r) = 1) =>
           /\ txDone[r].set /\ txStatus[r] \in {"Done", "Failed", "Expired"}
           /\ txStatus[r] = "Done" =>
                /\ xres[r].kind = "response" /\ xres[r].id = r
                /\ xres[r].result = hhash[r] /\ hhash[r] # 0
                /\ xres[r].err = "none" /\ xres[r].code = 0
           /\ txStatus[r] \in {"Failed", "Expired"} =>
                /\ xres[r].kind = "errorResponse" /\ xres[r].id = r
                /\ xres[r].code = 0 - 32603
                /\ xres[r].result = 0 /\ hhash[r] = 0

\* C15 reached: one request was answered with the hash its host was given,
\* another, whose transaction timed out, with the error object
C15_HashAndTimeout ==
  \E r1, r2 \in Reqs :
    /\ xpc[r1] = "done" /\ txStatus[r1] = "Done" /\ xres[r1].result = hhash[r1]
    /\ xpc[r2] = "done" /\ txStatus[r2] = "Expired" /\ xres[r2].kind = "errorResponse"

\* the pass-through calls whose client.Call has returned
Answered == {k \in DOMAIN oout : oout[k].err # "none"}

\* C16: the response of a pass-through call whose upstream call has returned
\* is one of four, by the outcome: a result that parses gives `result` with
\* the parsed value and no error; no result gives `result` present and null
\* and no error; an rpc.Error gives `error` with the error's own code and no
\* result; anything else (another error, a result that does not parse) gives
\* `error` with code -32603 and no result.  It always has the request's id.
C16_FourResponses ==
  \A k \in Answered :
    LET out == oout[k]
        resp == oresp[k]
    IN /\ resp.id = ReqId(k)
       /\ resp.result.set # resp.error.set
       /\ (out.err = "nil" /\ out.result.set /\ out.result.json) =>
            /\ resp.result.set /\ ~resp.result.null
            /\ resp.result.val = out.result.val
       /\ (out.err = "nil" /\ ~out.result.set) =>
            resp.result.set /\ resp.result.null
       /\ out.err = "rpc.Error" =>
            resp.error.set /\ resp.error.code = out.code
       /\ (out.err \notin {"nil", "rpc.Error"} \/ (out.result.set /\ ~out.result.json)) =>
            resp.error.set /\ resp.error.code = 0 - 32603

\* C16 reached: one pass-through call was answered with an explicit null
\* result, another with the code of the upstream's rpc.Error
C16_NullAndTypedError ==
  \E k1, k2 \in Answered :
    /\ kpc[k1] = "done" /\ oout[k1].err = "nil" /\ oresp[k1].result.null
    /\ kpc[k2] = "done" /\ oout[k2].err = "rpc.Error" /\ oresp[k2].error.code = ServerError

\* the calls that are inside ExecuteOtherTransaction, past preProcessRequest
InBracket == {k \in DOMAIN kpc : kpc[k] \in {"call", "upstream", "post"}}
\* the calls whose ExecuteOtherTransaction has returned
OtherReturned == {k \in DOMAIN kpc : Command(k) = "calculateGasPrice"
                                      /\ kpc[k] \in {"price", "return", "done"}}
Bracket == <<"preProcessRequest", "client.Call", "postProcessRequest">>

\* C17: a pass-through call whose preProcessRequest succeeded has, when
\* ExecuteOtherTransaction returns, run preProcessRequest, client.Call and
\* postProcessRequest once each and in that order, whatever client.Call came
\* back with; one whose preProcessRequest did not succeed has run none of
\* them.  While a call is in between, what it has run is the beginning of
\* that sequence.  The cell exposes a message id only while a call is in
\* between.
C17_StrictBracket ==
  /\ \A k \in OtherReturned : olog[k] \in {<<>>, Bracket}
  /\ \A k \in OtherReturned : (olog[k] = <<>>) <=> (oerr[k] # "none")
  /\ \A k \in InBracket :
       olog[k] = SubSeq(Bracket, 1, IF kpc[k] = "call" THEN 1 ELSE 2)
  /\ Cardinality(InBracket) <= 1
  /\ msgCtx # Nil <=> InBracket # {}
  /\ msgCtx # Nil => msgCtx = msgSeq

\* C17 reached: two pass-through calls have returned with the bracket closed,
\* one after the upstream call failed, one after it gave a result, and the
\* cell exposes no message id
C17_BracketsClosed ==
  /\ msgCtx = Nil /\ msgSeq >= 2
  /\ \E k1, k2 \in OtherReturned :
       /\ olog[k1] = Bracket /\ oout[k1].err = "timeout"
       /\ olog[k2] = Bracket /\ oout[k2].err = "nil"

\* the error manager.RPCClient() gave, as it is and wrapped
ClientErrors == {StepError("RPCClient"), StopRPCCallError(StepError("RPCClient"))}

\* C18: a call that found no RPC client has returned a StopRPCCallError and
\* has left nothing behind: a pass-through call has run neither
\* preProcessRequest nor client.Call and has no response, and a request of the
\* remote send path has called the upstream node neither for the nonce nor
\* for the submission and has no response.
C18_StopRPCCallOnNilClient ==
  /\ \A k \in DOMAIN oerr :
       oerr[k] \in ClientErrors =>
         /\ oerr[k] = StopRPCCallError(StepError("RPCClient"))
         /\ olog[k] = <<>> /\ oresp[k] = NoObject
  /\ \A r \in Reqs :
       xres[r].err \in ClientErrors =>
         /\ xres[r].err = StopRPCCallError(StepError("RPCClient"))
         /\ xres[r].kind = "error"
         /\ XCount(r, "eth_getTransactionCount") = 0
         /\ XCount(r, "eth_sendRawTransaction") = 0

\* C19: when the goroutine of a start closes the started channel after the
\* node came up (line 131), the node is fully initialized: the manager holds
\* this node, its configuration and its RPC client, the population of the
\* static peers has been scheduled, and node.started has been emitted.
C19_ClosedMeansInitialized ==
  [][\A k \in StartIds :
       (spc[k] = "close" /\ spc'[k] = "sig") =>
         /\ k \in startedClosed'
         /\ node' = k /\ config' = scfg[k] /\ rpcClient' = k
         /\ ppc'[k] # "none"
         /\ Sig("node.started", k) \in Range(signals')]_vars

\* the nodes that are starting (made, their goroutine not yet through
\* ethNode.Start) or running
StartingOrRunning == {k \in StartIds : eth[k] \in {"made", "running"}}

\* C20: a StartNode call makes a node and starts its goroutine only when no
\* node is starting or running; a StartNode call that returns NodeExists has
\* made no node, sent no signal and left the node handle, the configuration,
\* the RPC client and the started and stopped channels as they were.
C20_StartRefusedWhileLive ==
  [][\A c \in Callers :
       /\ (cop[c] = "StartNode" /\ cpc[c] = "s3" /\ cpc'[c] = "s4")
            => StartingOrRunning = {}
       /\ (cpc[c] # "idle" /\ cpc'[c] = "idle" /\ ret'.op = "StartNode" /\ ret'.err = "NodeExists")
            => UNCHANGED <<fieldVars, envVars>>]_vars

\* the nodes made by the startNode of a call of the method op
MadeBy(op) == {k \in StartIds : sby[k].op = op}
\* what reset() leaves behind (lines 480-487)
FieldsReset == /\ config = Nil /\ lesService = Nil /\ whisperService = Nil
               /\ rpcClient = Nil /\ nodeStarted = Nil /\ node = Nil
\* thread c makes its node in this step (lines 79-86)
MakesNode(c) == cpc[c] = "s3" /\ cpc'[c] = "s4"
\* node j has stopped, its start goroutine has closed m.nodeStopped and has
\* ended, and its stop goroutine has closed the channel stopNode returned
FullyStopped(j) == /\ j # Nil /\ eth[j] = "stopped" /\ spc[j] = "done"
                   /\ j \in stoppedClosed /\ j \in stopDone
\* the started channel of node k is closed in this step
ClosesStarted(k) == k \notin startedClosed /\ k \in startedClosed'

\* C21, for a restart whose new node comes up: RestartNode on a running node
\* is Stop followed by Start with the previous configuration.  It makes the
\* new node only after the old node has fully stopped and reset() has cleared
\* the manager's fields, the new node is started with the configuration the
\* old node ran with, the channel the call returns is the new node's started
\* channel (or nil), and when the start goroutine closes that channel with the node up
\* (line 131) the manager's configuration is the old node's.
C21_RestartIsStopThenStart ==
  [][/\ \A c \in Callers :
          /\ (MakesNode(c) /\ cop[c] = "RestartNode") =>
               /\ FullyStopped(cstop[c]) /\ FieldsReset
               /\ carg[c] = scfg[cstop[c]]
               /\ scfg'[nodeStarted'] = carg[c]
          /\ (Returns(c) /\ ret'.op = "RestartNode" /\ ret'.err = "ok" /\ ret'.val # Nil) =>
               /\ ret'.val \in MadeBy("RestartNode")
               /\ sby[ret'.val].stopped = cstop[c]
     /\ \A k \in MadeBy("RestartNode") :
          (ClosesStarted(k) /\ spc[k] = "close") =>
            config' # Nil /\ config' = scfg[sby[k].stopped]]_vars

\* C21, as stated: whenever the started channel of a node that RestartNode
\* made closes, the manager's configuration is the one that was active
\* before the restart.
C21_ConfigOnceStartedCloses ==
  [][\A k \in MadeBy("RestartNode") :
       ClosesStarted(k) => config' # Nil /\ config' = scfg[sby[k].stopped]]_vars

\* C21 reached: a RestartNode has returned the started channel of the node
\* it made, that channel is closed, node.started was emitted for the new
\* node, and the manager runs the new node with the old node's configuration
C21_RestartedWithPrevConfig ==
  \E k \in MadeBy("RestartNode") :
    /\ ret.op = "RestartNode" /\ ret.err = "ok" /\ ret.val = k
    /\ k \in startedClosed /\ Emitted("node.started", k)
    /\ node = k /\ config = scfg[sby[k].stopped]
    /\ FullyStopped(sby[k].stopped)

\* the positions of signal x in the signal log
Positions(x) == {n \in 1..Len(signals) : signals[n] = x}
\* node.chaindata.removed signals among the first n signals
RemovedBy(n) == Cardinality({m \in Positions(Sig("node.chaindata.removed", Nil)) : m <= n})

\* C22: ResetChainData performs Stop, then the removal of the chain data
\* directory, then Start(prevConfig).  The directory is removed (and
\* node.chaindata.removed emitted) only after the old node has fully stopped
\* and reset() has cleared the manager's fields, and at that moment the call
\* has made no node; the new node is made only after the removal, with the
\* previous configuration; the node.started of every node a ResetChainData
\* made comes after the node.chaindata.removed of that call.
C22_StopRemoveStart ==
  /\ \A c \in Callers :
       /\ (cop[c] = "ResetChainData" /\ cpc[c] \in {"rm", "s1", "s2", "s3"}) =>
            /\ cstop[c] \in stopDone /\ eth[cstop[c]] = "stopped"
            /\ cstop[c] \in stoppedClosed
            /\ FieldsReset
       /\ (cop[c] = "ResetChainData" /\ cpc[c] \in {"w", "rm"}) =>
            RemovedBy(Len(signals)) = Cardinality(MadeBy("ResetChainData"))
       /\ (cop[c] = "ResetChainData" /\ cpc[c] \in {"s1", "s2", "s3"}) =>
            RemovedBy(Len(signals)) = Cardinality(MadeBy("ResetChainData")) + 1
  /\ \A k \in MadeBy("ResetChainData") :
       /\ scfg[k] = scfg[sby[k].stopped]
       /\ RemovedBy(Len(signals)) >= Cardinality({j \in MadeBy("ResetChainData") : j <= k})
       /\ \A n \in Positions(Sig("node.started", k)) :
            RemovedBy(n) >= Cardinality({j \in MadeBy("ResetChainData") : j <= k})

\* C22 reached: a ResetChainData has stopped the node, removed the chain
\* data and started a new node, whose node.started is out
C22_ResetDone ==
  \E k \in MadeBy("ResetChainData") :
    /\ ret.op = "ResetChainData" /\ ret.err = "ok" /\ ret.val = k
    /\ Emitted("node.started", k) /\ node = k /\ config = scfg[sby[k].stopped]
    /\ Before(Sig("node.chaindata.removed", Nil), Sig("node.started", k))
    /\ FullyStopped(sby[k].stopped)

\* C23: a ResetChainData that finds no chain data directory at the delete
\* step returns the error of os.Stat, emits no signal and makes no node: the
\* node it stopped stays stopped, no node is live and the manager's fields
\* are as reset() left them.
C23_MissingChainDataFails ==
  [][\A c \in Callers :
       (Returns(c) /\ ret'.op = "ResetChainData" /\ ret'.err = "NotExist") =>
         /\ ret'.val = Nil
         /\ signals' = signals /\ eth' = eth /\ spc' = spc
         /\ RemovedBy(Len(signals')) = Cardinality(MadeBy("ResetChainData"))
         /\ FullyStopped(cstop[c])
         /\ LiveNodes' = {} /\ FieldsReset']_vars

\* C23 reached: a ResetChainData has returned NotExist with the node stopped,
\* node.stopped emitted, no node.chaindata.removed and the manager idle
C23_ResetFailedIdle ==
  /\ ret.op = "ResetChainData" /\ ret.err = "NotExist"
  /\ FieldsReset /\ LiveNodes = {} /\ stopDone # {}
  /\ \E j \in stopDone : Emitted("node.stopped", j)
  /\ ~Emitted("node.chaindata.removed", Nil)
  /\ MadeBy("ResetChainData") = {}

\* the place of each field lock in the order config -> node -> started ->
\* stopped -> services -> rpcClient
Rank(L) ==
  CASE L = "config"    -> 1
    [] L = "node"      -> 2
    [] L = "started"   -> 3
    [] L = "stopped"   -> 4
    [] L = "services"  -> 5
    [] L = "rpcClient" -> 6
\* goroutine p took lock a and, later, lock b
TookInOrder(p, a, b) == \E n, m \in 1..Len(locks[p]) :
                          n < m /\ locks[p][n] = a /\ locks[p][m] = b

\* C24: every goroutine of a lifecycle transition takes the exclusive field
\* locks in the order config -> node -> started -> stopped -> services ->
\* rpcClient, and no two goroutines take a pair of these locks in opposite
\* orders.
C24_FixedLockOrder ==
  /\ \A p \in Procs : \A n, m \in 1..Len(locks[p]) :
       n < m => Rank(locks[p][n]) <= Rank(locks[p][m])
  /\ \A p, q \in Procs : \A a, b \in {locks[p][n] : n \in 1..Len(locks[p])} :
       (a # b /\ TookInOrder(p, a, b)) => ~TookInOrder(q, b, a)

\* C25: after StopNode was accepted, the stop goroutine that waits on m.nodeStopped under the shared
\* nodeStoppedLock never keeps the start goroutine of its node from closing
\* that channel: there is no state in which stop goroutine j holds the read
\* lock with the channel open while start goroutine j, past node.Wait(),
\* waits for the exclusive lock.  (In such a state neither can ever move
\* again: the stopped channel the caller holds is never closed and the
\* manager never becomes idle.)
C25_StopNeverDeadlocks ==
  \A j \in StartIds :
    ~ /\ ~halted
      /\ ret.op = "StopNode" /\ ret.err = "ok" /\ ret.val = j
      /\ tpc[j] = "g2" /\ ~ChanReadable(nodeStopped, stoppedClosed)
      /\ spc[j] = "closeStopped" /\ <<"s", j>> \in blocked["stopped"]
      /\ ~ENABLED StopStep(j) /\ ~ENABLED StartStep(j)
      /\ j \notin stopDone /\ node = j

\* C26: an accessor that waits on m.nodeStarted under the shared
\* nodeStartedLock, entered after the node handle was installed and before
\* the channel is closed, never keeps the start goroutine from closing the
\* channel: there is no state in which a caller holds the read lock with the
\* channel open while the start goroutine, at line 131, waits for the
\* exclusive lock.  (In such a state neither the accessor nor the start can
\* ever finish.)
C26_AccessorNeverBlocksStart ==
  \A c \in Callers : \A k \in StartIds :
    ~ /\ ~halted
      /\ cpc[c] = "r2" /\ cop[c] \in Accessors
      /\ ~ChanReadable(nodeStarted, startedClosed)
      /\ node = k /\ nodeStarted = k
      /\ spc[k] = "close" /\ <<"s", k>> \in blocked["started"]
      /\ ~ENABLED CallerStep(c) /\ ~ENABLED StartStep(k)


\* C27: in Remote Send the key that signs belongs to the address the nonce
\* was fetched for: a request whose transaction was signed and handed to
\* eth_sendRawTransaction names the selected account's address as its from
\* address, so no request naming another from address is signed with the
\* selected account's key.
C27_SignerIsFromAddress ==
  \A r \in Reqs :
    (xtx[r].sig # 0 /\ XCount(r, "eth_sendRawTransaction") = 1) =>
      /\ xfrom[r] = SelectedAddress
      /\ KeyAddress(xtx[r].sig) = xfrom[r]


\* the send requests whose ExecuteSendTransaction has returned
SendReturned == {r \in Reqs : xpc[r] = "done"}
\* a response object of the send paths has `result` when it is the object that
\* Set("result", ...) ran on, and `error` when it carries an error code
XHasResult(res) == res.kind = "response"
XHasError(res)  == res.code # 0

====
